---- MODULE Spec2Model ----
(***************************************************************************)
(* Model of the production-planning engine of bc-production-planning:      *)
(* Batch and Farm (src/modules/farm.py) driven as forecast_page.py drives  *)
(* them: Farm.forecast over the existing inventory, the per-species        *)
(* shortfall derived from the last day's totals, then Farm.plan_future.    *)
(*                                                                         *)
(* One step of the model is one iteration of a loop of the source: the     *)
(* start of a day, the evaluation of one batch, one pass of the admission  *)
(* loop, the end of a day.  Python's None is the empty tuple and a value v *)
(* that may be None is the tuple <<v>>.                                    *)
(*                                                                         *)
(* Time is scaled: the cycle lengths are parameters of Batch.__init__      *)
(* (defaults 28, 30 and 90 days in the source); the model runs with short  *)
(* cycles and a short horizon so that every stage is reached.              *)
(***************************************************************************)
EXTENDS Integers, Sequences, FiniteSets, TLC

(* ------------------------------ bounds -------------------------------- *)
\* forecast horizon in days (forecast_days of forecast_page.py)
Days == 8
\* longest initial inventory
MaxBatches == 2
\* cycle lengths every batch of the model is built with
BsCycleDays == 2
MfCycleDays == 1
FsCycleDays == 2
\* random.randint(1, 10000) of create_batch draws from 1..MaxTestId
MaxTestId == 1
\* rows of the frame read from the warehouse
MaxRows == 1

(* -------------------------- program constants ------------------------- *)
\* min(quantity_ceiling, 100) in Farm.create_batch
MaxBatchQuantity == 100

None == << >>
Some(v) == << v >>

Stages == {"BS", "MF", "FS", "OP"}

Min(a, b) == IF a <= b THEN a ELSE b

RECURSIVE SeqSum(_)
SeqSum(s) == IF s = << >> THEN 0 ELSE Head(s) + SeqSum(Tail(s))

\* sum of f[k] over the keys k of the sequence ks
RECURSIVE SumOver(_, _)
SumOver(f, ks) == IF ks = << >> THEN 0 ELSE f[Head(ks)] + SumOver(f, Tail(ks))

Range(s) == { s[i] : i \in DOMAIN s }

(* ------------------------------- Batch -------------------------------- *)
InitEndDate(stage, start_date, bs, mf, fs) ==
    IF stage = "BS" THEN Some(start_date + bs)
    ELSE IF stage = "MF" THEN Some(start_date + mf)
    ELSE IF stage = "FS" THEN Some(start_date + fs)
    ELSE None

Batch(batch_id, species, quantity, stage, start_date, bs, mf, fs) ==
    [ batch_id |-> batch_id, species |-> species, quantity |-> quantity,
      stage |-> stage, start_date |-> start_date,
      bs_cycle_days |-> bs, mf_cycle_days |-> mf, fs_cycle_days |-> fs,
      end_date |-> InitEndDate(stage, start_date, bs, mf, fs) ]

\* mutation: ready one day before the end date
is_ready_one_day_early(batch, d) ==
    IF batch.end_date = None THEN FALSE ELSE d + 1 >= batch.end_date[1]

\* mutation: ready only after the end date
is_ready_one_day_late(batch, d) ==
    IF batch.end_date = None THEN FALSE ELSE d > batch.end_date[1]

\* mutation: ready on the end date only, not on the days after it
is_ready_on_end_date_only(batch, d) ==
    IF batch.end_date = None THEN FALSE ELSE d = batch.end_date[1]

is_ready_to_transition(batch, d) ==
    IF batch.end_date = None THEN FALSE ELSE d >= batch.end_date[1]

\* mutation: a BS batch skips MF
change_stage_skipping(batch, d) ==
    IF batch.stage = "BS"
    THEN [batch EXCEPT !.stage = "FS", !.end_date = Some(d + batch.fs_cycle_days),
                       !.start_date = d]
    ELSE IF batch.stage = "MF"
    THEN [batch EXCEPT !.stage = "FS", !.end_date = Some(d + batch.fs_cycle_days),
                       !.start_date = d]
    ELSE IF batch.stage = "FS"
    THEN [batch EXCEPT !.stage = "OP", !.end_date = None, !.start_date = d]
    ELSE [batch EXCEPT !.start_date = d]

\* mutation: the new stage is scheduled from the old end date, not from the
\* day of the transition
change_stage_on_schedule(batch, d) ==
    IF batch.stage = "BS"
    THEN [batch EXCEPT !.stage = "MF",
                       !.end_date = Some(batch.end_date[1] + batch.mf_cycle_days),
                       !.start_date = batch.end_date[1]]
    ELSE IF batch.stage = "MF"
    THEN [batch EXCEPT !.stage = "FS",
                       !.end_date = Some(batch.end_date[1] + batch.fs_cycle_days),
                       !.start_date = batch.end_date[1]]
    ELSE IF batch.stage = "FS"
    THEN [batch EXCEPT !.stage = "OP", !.end_date = None,
                       !.start_date = batch.end_date[1]]
    ELSE [batch EXCEPT !.start_date = d]

change_stage(batch, d) ==
    IF batch.stage = "BS"
    THEN [batch EXCEPT !.stage = "MF", !.end_date = Some(d + batch.mf_cycle_days),
                       !.start_date = d]
    ELSE IF batch.stage = "MF"
    THEN [batch EXCEPT !.stage = "FS", !.end_date = Some(d + batch.fs_cycle_days),
                       !.start_date = d]
    ELSE IF batch.stage = "FS"
    THEN [batch EXCEPT !.stage = "OP", !.end_date = None, !.start_date = d]
    ELSE [batch EXCEPT !.start_date = d]

\* mutation: a mortality model that loses one organism a day
simulate_mortality_lossy(batch) ==
    [batch EXCEPT !.quantity = IF @ > 0 THEN @ - 1 ELSE 0]

\* mutation: a mortality model that loses a tenth of the stock in FS each day
simulate_mortality_in_fs(batch) ==
    IF batch.stage = "FS" THEN [batch EXCEPT !.quantity = @ - (@ \div 10)] ELSE batch

simulate_mortality(batch) == batch

(* -------------------------------- Farm -------------------------------- *)
\* mutation: any room left in the next stage admits the batch
check_stage_capacity_any_room(caps, batch) ==
    IF batch.stage = "BS" THEN caps["MF"] > 0
    ELSE IF batch.stage = "MF" THEN caps["FS"] > 0
    ELSE IF batch.stage = "FS" THEN caps["OP"] > 0
    ELSE FALSE

\* mutation: a batch that would use up the pool exactly is refused
check_stage_capacity_strict(caps, batch) ==
    IF batch.stage = "BS" THEN caps["MF"] > batch.quantity
    ELSE IF batch.stage = "MF" THEN caps["FS"] > batch.quantity
    ELSE IF batch.stage = "FS" THEN caps["OP"] > batch.quantity
    ELSE FALSE

check_stage_capacity(caps, batch) ==
    IF batch.stage = "BS" THEN caps["MF"] >= batch.quantity
    ELSE IF batch.stage = "MF" THEN caps["FS"] >= batch.quantity
    ELSE IF batch.stage = "FS" THEN caps["OP"] >= batch.quantity
    ELSE FALSE

\* mutation: the production pool is never consulted
check_prod_capacity_unchecked(prod_remaining, batch) == TRUE

check_prod_capacity(prod_remaining, batch) ==
    IF batch.stage = "BS" /\ prod_remaining < batch.quantity THEN FALSE
    ELSE TRUE

\* mutation: the batch takes the whole ceiling, without the cap of 100
create_batch_uncapped(d, species, quantity_ceiling, test_id) ==
    Batch(test_id, species, quantity_ceiling, "BS", d,
          BsCycleDays, MfCycleDays, FsCycleDays)

\* mutation: every batch has the full size of 100
create_batch_full_size(d, species, quantity_ceiling, test_id) ==
    Batch(test_id, species, MaxBatchQuantity, "BS", d,
          BsCycleDays, MfCycleDays, FsCycleDays)

create_batch(d, species, quantity_ceiling, test_id) ==
    Batch(test_id, species, Min(quantity_ceiling, MaxBatchQuantity), "BS", d,
          BsCycleDays, MfCycleDays, FsCycleDays)

\* Farm.choose_species: the set of species it may return, {} when the share
\* of a species with target 0 raises ZeroDivisionError.  The running maximum
\* is the fraction maxnum / maxden (initially -1); shares are compared by
\* cross-multiplication, targets being positive where the division succeeds.
\* mutation: a share equal to the running maximum replaces it
RECURSIVE choose_loop_last_tie(_, _, _, _, _, _)
choose_loop_last_tie(keys, species_shortfall, production_order, maxnum, maxden, max_species) ==
    IF keys = << >> THEN max_species
    ELSE LET species == Head(keys)
             sf == species_shortfall[species]
             po == production_order[species]
         IN IF sf * maxden >= maxnum * po
            THEN choose_loop_last_tie(Tail(keys), species_shortfall, production_order,
                                      sf, po, Some(species))
            ELSE choose_loop_last_tie(Tail(keys), species_shortfall, production_order,
                                      maxnum, maxden, max_species)

RECURSIVE choose_loop(_, _, _, _, _, _)
choose_loop(keys, species_shortfall, production_order, maxnum, maxden, max_species) ==
    IF keys = << >> THEN max_species
    ELSE LET species == Head(keys)
             sf == species_shortfall[species]
             po == production_order[species]
         IN IF sf * maxden > maxnum * po
            THEN choose_loop(Tail(keys), species_shortfall, production_order,
                             sf, po, Some(species))
            ELSE choose_loop(Tail(keys), species_shortfall, production_order,
                             maxnum, maxden, max_species)

DivisionFault(keys, production_order) ==
    \E i \in DOMAIN keys : production_order[keys[i]] = 0

\* mutation: the running maximum starts at 1, so only a share above the whole
\* target enters the ranking
choose_species_above_one(keys, species_shortfall, production_order, complete_species_set) ==
    IF DivisionFault(keys, production_order) THEN {}
    ELSE LET max_species == choose_loop(keys, species_shortfall, production_order,
                                        1, 1, None)
         IN IF max_species # None THEN { max_species[1] } ELSE complete_species_set

choose_species(keys, species_shortfall, production_order, complete_species_set) ==
    IF DivisionFault(keys, production_order) THEN {}
    ELSE LET max_species == choose_loop(keys, species_shortfall, production_order,
                                        0 - 1, 1, None)
         IN IF max_species # None THEN { max_species[1] } ELSE complete_species_set

(* ------------------------------- inputs ------------------------------- *)
\* key order of the production_order dict
SpeciesOrder == << "A", "B" >>

\* rows of the initial inventory: species, quantity, stage, start day
InputRows ==
    { [species |-> "A", quantity |-> 100, stage |-> "BS", start_date |-> 0],
      [species |-> "B", quantity |-> 60,  stage |-> "BS", start_date |-> 0],
      [species |-> "C", quantity |-> 60,  stage |-> "MF", start_date |-> 0],
      [species |-> "A", quantity |-> 100, stage |-> "FS", start_date |-> 0 - 1],
      [species |-> "B", quantity |-> 100, stage |-> "OP", start_date |-> 0 - 3] }

StageCapacityChoices ==
    { [BS |-> 1000, MF |-> 300, FS |-> 300, OP |-> 1000],
      [BS |-> 150,  MF |-> 150, FS |-> 150, OP |-> 150],
      [BS |-> 1000, MF |-> 50,  FS |-> 300, OP |-> 1000] }

ProductionOrders ==
    { [s \in Range(SpeciesOrder) |-> IF s = "A" THEN 100 ELSE 150],
      [s \in Range(SpeciesOrder) |-> IF s = "A" THEN 200 ELSE 0] }

\* (tank capacity, number of tanks) of the production and the broodstock tanks
ProdTankChoices == { << 100, 1 >>, << 1000, 2 >> }
BsTankChoices == { << 150, 2 >> }
\* broodstock tanks that a small inventory fills almost, wholly, or more than
\* wholly
SmallBsTankChoices == { << 100, 2 >>, << 100, 1 >> }

\* no-outplant window: both bounds None, or an inclusive range of days
WindowChoices == { << None, None >>, << Some(4), Some(5) >> }

(* -------------------------------- state ------------------------------- *)
VARIABLES
    pc, day, idx,
    farm,                       \* the Farm's configuration fields
    inventory,                  \* Farm.inventory
    inventory0,                 \* the inventory as it was handed to Farm
    \* locals of Farm.forecast
    cur_inventory, cur_totals, cur_totals_species,
    forecast_changes, forecast_changes_species, stage_capacity_remaining,
    rolling_inventory, rolling_totals, rolling_changes, rolling_capacity,
    \* locals of Farm.plan_future; its stage_capacity_remaining is the dict
    \* forecasted_capacity[day]["stage"] itself, rolling_capacity[day+1].stage
    hypothetical_inventory, shortfall, species_shortfall,
    new_species,                \* the species choose_species returned last
    in_outplant_window, prod_capacity_remaining, bs_capacity_remaining,
    hypothetical_changes, hypothetical_changes_species,
    hypothetical_totals, hypothetical_totals_species, hyp_cur_inventory,
    hypothetical_rolling_inventory, hypothetical_rolling_totals,
    hypothetical_rolling_changes, hypothetical_rolling_capacity,
    \* what each batch evaluation of the current day saw and did
    evals,
    \* forecast_page.py: the rows read from the warehouse, the series of an
    \* earlier forecast run on equal inputs, st.session_state.unified_result
    df_batches, first_result, unified_result

fvars == << cur_inventory, cur_totals, cur_totals_species, forecast_changes,
            forecast_changes_species, stage_capacity_remaining >>
frolling == << rolling_inventory, rolling_totals, rolling_changes >>
pday == << in_outplant_window, prod_capacity_remaining, bs_capacity_remaining >>
pacc == << hypothetical_changes, hypothetical_changes_species,
           hypothetical_totals, hypothetical_totals_species, hyp_cur_inventory >>
prolling == << hypothetical_rolling_inventory, hypothetical_rolling_totals,
               hypothetical_rolling_changes, hypothetical_rolling_capacity >>
padmit == << hypothetical_inventory, shortfall, species_shortfall, new_species >>
page == << df_batches, first_result, unified_result >>
vars == << pc, day, idx, farm, inventory, inventory0, fvars, frolling,
           rolling_capacity, padmit, pday, pacc, prolling, evals, page >>

EmptyDict == [k \in {} |-> 0]
Put(dict, key, value) ==
    [k \in DOMAIN dict \cup {key} |-> IF k = key THEN value ELSE dict[k]]

totals_zero == [BS |-> 0, MF |-> 0, FS |-> 0, OP |-> 0, SF |-> 0]
blank_totals == [BS |-> 0, MF |-> 0, FS |-> 0, OP |-> 0]

Farm(inv, prod_tank_capacity, prod_tank_num, bs_tank_capacity, bs_tank_num, stage_capacities, production_order, window_start, window_end) ==
    [ prod_capacity |-> prod_tank_capacity * prod_tank_num,
      bs_capacity |-> bs_tank_capacity * bs_tank_num,
      stage_capacities |-> stage_capacities,
      production_order |-> production_order,
      forecast_species_set |-> { inv[i].species : i \in DOMAIN inv },
      complete_species_set |->
          { inv[i].species : i \in DOMAIN inv } \cup DOMAIN production_order,
      no_outplant_window_start |-> window_start,
      no_outplant_window_end |-> window_end ]

\* sum(production_order.values()), the desired_output forecast_page.py passes
desired_output == SumOver(farm.production_order, SpeciesOrder)

\* the inventory forecast_page.py builds from n rows
InventoryOf(n, rows) ==
    [i \in 1..n |->
        Batch(i, rows[i].species, rows[i].quantity, rows[i].stage,
              rows[i].start_date, BsCycleDays, MfCycleDays, FsCycleDays)]

\* the page has built a Farm and is about to call forecast
InitFarm(inv, caps, po, pt, bt, w) ==
    /\ pc = "f_day" /\ day = 0 /\ idx = 1
    /\ inventory = inv /\ inventory0 = inv
    /\ farm = Farm(inv, pt[1], pt[2], bt[1], bt[2], caps, po, w[1], w[2])
    /\ cur_inventory = EmptyDict
    /\ cur_totals = totals_zero
    /\ cur_totals_species = [s \in { inv[i].species : i \in DOMAIN inv } |-> totals_zero]
    /\ forecast_changes = totals_zero
    /\ forecast_changes_species = [s \in { inv[i].species : i \in DOMAIN inv } |-> totals_zero]
    /\ stage_capacity_remaining = caps
    /\ rolling_inventory = << >> /\ rolling_totals = << >>
    /\ rolling_changes = << >> /\ rolling_capacity = << >>
    /\ hypothetical_inventory = << >> /\ shortfall = 0
    /\ species_shortfall = [s \in DOMAIN po |-> 0]
    /\ new_species = None
    /\ in_outplant_window = FALSE
    /\ prod_capacity_remaining = 0 /\ bs_capacity_remaining = 0
    /\ hypothetical_changes = blank_totals
    /\ hypothetical_changes_species = EmptyDict
    /\ hypothetical_totals = blank_totals
    /\ hypothetical_totals_species = EmptyDict
    /\ hyp_cur_inventory = EmptyDict
    /\ hypothetical_rolling_inventory = << >> /\ hypothetical_rolling_totals = << >>
    /\ hypothetical_rolling_changes = << >> /\ hypothetical_rolling_capacity = << >>
    /\ evals = << >>
    /\ df_batches = << >> /\ first_result = None /\ unified_result = None

Init ==
    \E n \in 0..MaxBatches :
    \E rows \in [1..n -> InputRows] :
    \E caps \in StageCapacityChoices, po \in ProductionOrders,
       pt \in ProdTankChoices, bt \in BsTankChoices, w \in WindowChoices :
    InitFarm(InventoryOf(n, rows), caps, po, pt, bt, w)

(* ---------------------------- Farm.forecast --------------------------- *)
\* mutation: the stage pool is carried over from the day before
ForecastStartDayCarryOver ==
    /\ pc = "f_day" /\ day < Days
    /\ cur_inventory' = EmptyDict
    /\ cur_totals' = totals_zero
    /\ cur_totals_species' = [s \in farm.forecast_species_set |-> totals_zero]
    /\ forecast_changes' = totals_zero
    /\ forecast_changes_species' = [s \in farm.forecast_species_set |-> totals_zero]
    /\ stage_capacity_remaining' = stage_capacity_remaining
    /\ idx' = 1 /\ evals' = << >>
    /\ pc' = "f_batch"
    /\ UNCHANGED << day, farm, page, inventory, inventory0, frolling, rolling_capacity,
                    padmit, pday, pacc, prolling >>

\* mutation: the stage pool of a day is either fresh or the one left over
ForecastStartDayEitherPool ==
    /\ pc = "f_day" /\ day < Days
    /\ cur_inventory' = EmptyDict
    /\ cur_totals' = totals_zero
    /\ cur_totals_species' = [s \in farm.forecast_species_set |-> totals_zero]
    /\ forecast_changes' = totals_zero
    /\ forecast_changes_species' = [s \in farm.forecast_species_set |-> totals_zero]
    /\ stage_capacity_remaining' \in { farm.stage_capacities, stage_capacity_remaining }
    /\ idx' = 1 /\ evals' = << >>
    /\ pc' = "f_batch"
    /\ UNCHANGED << day, farm, page, inventory, inventory0, frolling, rolling_capacity,
                    padmit, pday, pacc, prolling >>

\* mutation: the MF pool of a day is no larger than the production pool
ForecastStartDayProdBound ==
    /\ pc = "f_day" /\ day < Days
    /\ cur_inventory' = EmptyDict
    /\ cur_totals' = totals_zero
    /\ cur_totals_species' = [s \in farm.forecast_species_set |-> totals_zero]
    /\ forecast_changes' = totals_zero
    /\ forecast_changes_species' = [s \in farm.forecast_species_set |-> totals_zero]
    /\ stage_capacity_remaining' =
         [farm.stage_capacities EXCEPT !["MF"] = Min(@, farm.prod_capacity)]
    /\ idx' = 1 /\ evals' = << >>
    /\ pc' = "f_batch"
    /\ UNCHANGED << day, farm, page, inventory, inventory0, frolling, rolling_capacity,
                    padmit, pday, pacc, prolling >>

\* for day in range(days): the day's blank accumulators and a fresh copy of
\* the stage ceilings
ForecastStartDay ==
    /\ pc = "f_day" /\ day < Days
    /\ cur_inventory' = EmptyDict
    /\ cur_totals' = totals_zero
    /\ cur_totals_species' = [s \in farm.forecast_species_set |-> totals_zero]
    /\ forecast_changes' = totals_zero
    /\ forecast_changes_species' = [s \in farm.forecast_species_set |-> totals_zero]
    /\ stage_capacity_remaining' = farm.stage_capacities
    /\ idx' = 1 /\ evals' = << >>
    /\ pc' = "f_batch"
    /\ UNCHANGED << day, farm, page, inventory, inventory0, frolling, rolling_capacity,
                    padmit, pday, pacc, prolling >>

\* mutation: a transition takes nothing from the pool
decrement_nothing(caps, stage, quantity) == caps

\* stage_capacity_remaining[batch.stage] -= batch.quantity
decrement(caps, stage, quantity) == [caps EXCEPT ![stage] = @ - quantity]

\* what an evaluation saw: the batch before it, the pools before it
Evaluation(pass, i, batch, caps, prod, window, after) ==
    [ pass |-> pass, idx |-> i, day |-> day, stage |-> batch.stage, end_date |-> batch.end_date,
      quantity |-> batch.quantity, caps |-> caps, prod |-> prod,
      in_window |-> window, moved |-> after.stage # batch.stage,
      new_stage |-> after.stage ]

\* one iteration of "for batch in self.inventory"
ForecastBatch ==
    /\ pc = "f_batch" /\ idx <= Len(inventory)
    /\ LET batch == inventory[idx]
           is_ready == is_ready_to_transition(batch, day)
           stage_capacity_exists == check_stage_capacity(stage_capacity_remaining, batch)
           moves == is_ready /\ stage_capacity_exists
           changed == IF moves THEN change_stage(batch, day) ELSE batch
           after == simulate_mortality(changed)
       IN
       /\ inventory' = [inventory EXCEPT ![idx] = after]
       /\ stage_capacity_remaining' =
            IF moves
            THEN decrement(stage_capacity_remaining, changed.stage, changed.quantity)
            ELSE stage_capacity_remaining
       /\ forecast_changes' =
            IF moves
            THEN [forecast_changes EXCEPT ![changed.stage] = @ + changed.quantity]
            ELSE forecast_changes
       /\ forecast_changes_species' =
            IF moves
            THEN [forecast_changes_species EXCEPT
                    ![changed.species][changed.stage] = @ + changed.quantity]
            ELSE forecast_changes_species
       /\ cur_inventory' = Put(cur_inventory, after.batch_id,
                               [species |-> after.species, stage |-> after.stage,
                                quantity |-> after.quantity])
       /\ cur_totals' = [cur_totals EXCEPT ![after.stage] = @ + after.quantity]
       /\ cur_totals_species' =
            [cur_totals_species EXCEPT ![after.species][after.stage] = @ + after.quantity]
       /\ evals' = Append(evals, Evaluation("forecast", idx, batch, stage_capacity_remaining,
                                            None, FALSE, after))
    /\ idx' = idx + 1
    /\ UNCHANGED << pc, day, farm, page, inventory0, frolling, rolling_capacity,
                    padmit, pday, pacc, prolling >>

\* mutation: a species without a target gets the SF of a target of 0
SpeciesSFDefaultZero(totals_species, production_order) ==
    [s \in DOMAIN totals_species |->
        IF s \in DOMAIN production_order
        THEN [totals_species[s] EXCEPT !.SF = production_order[s] - totals_species[s].OP]
        ELSE [totals_species[s] EXCEPT !.SF = 0 - totals_species[s].OP]]

\* the species SF of the day: only for species of the production order
SpeciesSF(totals_species, production_order) ==
    [s \in DOMAIN totals_species |->
        IF s \in DOMAIN production_order
        THEN [totals_species[s] EXCEPT !.SF = production_order[s] - totals_species[s].OP]
        ELSE totals_species[s]]

\* mutation: a residual below 0 is recorded as 0
avail_prod_capacity_clamped(prod_capacity, totals) ==
    IF prod_capacity - totals.MF - totals.FS < 0 THEN 0
    ELSE prod_capacity - totals.MF - totals.FS

\* cur_avail_prod_capacity and cur_avail_bs_capacity of the day
avail_prod_capacity(prod_capacity, totals) == prod_capacity - totals.MF - totals.FS

avail_bs_capacity(bs_capacity, totals) == bs_capacity - totals.BS

\* after the batch loop: shortfall, residual pools, the day's records
ForecastEndDay ==
    /\ pc = "f_batch" /\ idx > Len(inventory)
    /\ LET totals == [cur_totals EXCEPT !.SF = desired_output - cur_totals.OP]
           totals_species == SpeciesSF(cur_totals_species, farm.production_order)
           cur_avail_prod_capacity == avail_prod_capacity(farm.prod_capacity, totals)
           cur_avail_bs_capacity == avail_bs_capacity(farm.bs_capacity, totals)
       IN
       /\ cur_totals' = totals
       /\ cur_totals_species' = totals_species
       /\ rolling_inventory' = Append(rolling_inventory, cur_inventory)
       /\ rolling_totals' = Append(rolling_totals,
                                   [overall |-> totals, species |-> totals_species])
       /\ rolling_changes' = Append(rolling_changes,
                                    [overall |-> forecast_changes,
                                     species |-> forecast_changes_species])
       /\ rolling_capacity' = Append(rolling_capacity,
                                     [prod |-> cur_avail_prod_capacity,
                                      broodstock |-> cur_avail_bs_capacity,
                                      stage |-> stage_capacity_remaining])
    /\ day' = day + 1 /\ pc' = "f_day"
    /\ UNCHANGED << idx, farm, page, inventory, inventory0, cur_inventory, forecast_changes,
                    forecast_changes_species, stage_capacity_remaining,
                    padmit, pday, pacc, prolling, evals >>

(* ------------- forecast_page.py: from forecast to plan_future --------- *)
\* forecast_result[1][-1]["species"].get(spec, {}).get("SF", production_order[spec])
final_shortfall_species(last_totals, production_order) ==
    [spec \in DOMAIN production_order |->
        IF spec \in DOMAIN last_totals.species
        THEN last_totals.species[spec].SF
        ELSE production_order[spec]]

\* mutation: plan_future starts on the Farm's inventory
PlanFutureStartOnInventory ==
    /\ pc = "f_day" /\ day = Days
    /\ LET sf == final_shortfall_species(rolling_totals[Len(rolling_totals)],
                                         farm.production_order)
       IN /\ species_shortfall' = sf
          /\ shortfall' = SumOver(sf, SpeciesOrder)
    /\ hypothetical_inventory' = inventory /\ new_species' = None
    /\ day' = 0 /\ idx' = 1 /\ evals' = << >>
    /\ pc' = "p_day"
    /\ UNCHANGED << farm, page, inventory, inventory0, fvars, frolling, rolling_capacity,
                    pday, pacc, prolling >>

\* forecast has returned; plan_future starts on an empty inventory with the
\* aggregate shortfall sum(species_shortfall.values())
PlanFutureStart ==
    /\ pc = "f_day" /\ day = Days
    /\ LET sf == final_shortfall_species(rolling_totals[Len(rolling_totals)],
                                         farm.production_order)
       IN /\ species_shortfall' = sf
          /\ shortfall' = SumOver(sf, SpeciesOrder)
    /\ hypothetical_inventory' = << >> /\ new_species' = None
    /\ day' = 0 /\ idx' = 1 /\ evals' = << >>
    /\ pc' = "p_day"
    /\ UNCHANGED << farm, page, inventory, inventory0, fvars, frolling, rolling_capacity,
                    pday, pacc, prolling >>

(* --------------------------- Farm.plan_future ------------------------- *)
\* mutation: the last day of the window is left out
InWindowOpenEnd(window_start, window_end, d) ==
    IF window_start # None /\ window_end # None
    THEN window_start[1] <= d /\ d < window_end[1]
    ELSE FALSE

\* mutation: the window lasts one day longer
InWindowLate(window_start, window_end, d) ==
    IF window_start # None /\ window_end # None
    THEN window_start[1] <= d /\ d <= window_end[1] + 1
    ELSE FALSE

InWindow(window_start, window_end, d) ==
    IF window_start # None /\ window_end # None
    THEN window_start[1] <= d /\ d <= window_end[1]
    ELSE FALSE

\* mutation: the forecast's value is taken on every day
ProdRemainingForecastOnly(forecasted_capacity, d, prev_totals) ==
    forecasted_capacity[d + 1].prod

\* the facility pools at the start of day d: the forecast's values, less the
\* planner's own totals of the day before when d > 0
ProdRemaining(forecasted_capacity, d, prev_totals) ==
    IF d = 0 THEN forecasted_capacity[1].prod
    ELSE forecasted_capacity[d + 1].prod - prev_totals.MF - prev_totals.FS

\* mutation: the planner's own broodstock of the day before is not subtracted
BsRemainingForecastOnly(forecasted_capacity, d, prev_totals) ==
    forecasted_capacity[d + 1].broodstock

BsRemaining(forecasted_capacity, d, prev_totals) ==
    IF d = 0 THEN forecasted_capacity[1].broodstock
    ELSE forecasted_capacity[d + 1].broodstock - prev_totals.BS

PlanStartDay ==
    /\ pc = "p_day" /\ day < Days
    /\ in_outplant_window' = InWindow(farm.no_outplant_window_start,
                                      farm.no_outplant_window_end, day)
    /\ prod_capacity_remaining' = ProdRemaining(rolling_capacity, day, hypothetical_totals)
    /\ bs_capacity_remaining' = BsRemaining(rolling_capacity, day, hypothetical_totals)
    /\ hypothetical_changes' = blank_totals
    /\ hypothetical_changes_species' = [s \in farm.complete_species_set |-> blank_totals]
    /\ hypothetical_totals' = blank_totals
    /\ hypothetical_totals_species' = [s \in farm.complete_species_set |-> blank_totals]
    /\ hyp_cur_inventory' = EmptyDict
    /\ evals' = << >>
    /\ pc' = "p_admit"
    /\ UNCHANGED << day, idx, farm, page, inventory, inventory0, fvars, frolling,
                    rolling_capacity, padmit, prolling >>

\* the condition of the admission loop
AdmissionOpen(sf, stage_caps, bs_remaining) ==
    sf > 0 /\ stage_caps["BS"] > 0 /\ bs_remaining > 0

\* mutation: the shortfall does not limit the batch
quantity_ceiling_without_shortfall(sf, stage_caps, bs_remaining) ==
    Min(stage_caps["BS"], bs_remaining)

\* mutation: the BS-stage pool does not limit the batch
quantity_ceiling_without_stage(sf, stage_caps, bs_remaining) ==
    Min(sf, bs_remaining)

quantity_ceiling(sf, stage_caps, bs_remaining) ==
    Min(Min(sf, stage_caps["BS"]), bs_remaining)

\* one iteration of the admission loop
PlanAdmit ==
    /\ pc = "p_admit"
    /\ AdmissionOpen(shortfall, rolling_capacity[day + 1].stage, bs_capacity_remaining)
    /\ \E sp \in choose_species(SpeciesOrder, species_shortfall,
                                         farm.production_order, farm.complete_species_set),
          test_id \in 1..MaxTestId :
       LET new_batch == create_batch(day, sp,
                            quantity_ceiling(shortfall, rolling_capacity[day + 1].stage,
                                             bs_capacity_remaining),
                            test_id)
       IN
       /\ sp \in DOMAIN species_shortfall
       /\ new_species' = Some(sp)
       /\ hypothetical_inventory' = Append(hypothetical_inventory, new_batch)
       /\ rolling_capacity' =
            [rolling_capacity EXCEPT ![day + 1].stage["BS"] = @ - new_batch.quantity]
       /\ bs_capacity_remaining' = bs_capacity_remaining - new_batch.quantity
       /\ shortfall' = shortfall - new_batch.quantity
       /\ species_shortfall' =
            [species_shortfall EXCEPT ![new_batch.species] = @ - new_batch.quantity]
       /\ hypothetical_changes' =
            [hypothetical_changes EXCEPT ![new_batch.stage] = @ + new_batch.quantity]
       /\ hypothetical_changes_species' =
            [hypothetical_changes_species EXCEPT
                ![new_batch.species][new_batch.stage] = @ + new_batch.quantity]
    /\ UNCHANGED << pc, day, idx, farm, page, inventory, inventory0, fvars, frolling,
                    in_outplant_window, prod_capacity_remaining,
                    hypothetical_totals, hypothetical_totals_species,
                    hyp_cur_inventory, prolling, evals >>

\* an iteration that raises: ZeroDivisionError in choose_species, or KeyError
\* at species_shortfall[new_batch.species] for a species of the fallback that
\* the shortfall map does not hold; plan_future is left by the exception
PlanAdmitFault ==
    /\ pc = "p_admit"
    /\ AdmissionOpen(shortfall, rolling_capacity[day + 1].stage, bs_capacity_remaining)
    /\ LET chosen == choose_species(SpeciesOrder, species_shortfall,
                                    farm.production_order, farm.complete_species_set)
       IN \/ /\ chosen = {}
             /\ UNCHANGED rolling_capacity
          \/ /\ \E sp \in chosen : sp \notin DOMAIN species_shortfall
             /\ rolling_capacity' =
                  [rolling_capacity EXCEPT ![day + 1].stage["BS"] =
                      @ - Min(quantity_ceiling(shortfall, rolling_capacity[day + 1].stage,
                                               bs_capacity_remaining),
                              MaxBatchQuantity)]
    /\ pc' = "error"
    /\ UNCHANGED << day, idx, farm, page, inventory, inventory0, fvars, frolling,
                    padmit, pday, pacc, prolling, evals >>

\* the admission loop ends; the batch loop starts
PlanAdmitExit ==
    /\ pc = "p_admit"
    /\ ~ AdmissionOpen(shortfall, rolling_capacity[day + 1].stage, bs_capacity_remaining)
    /\ pc' = "p_batch" /\ idx' = 1
    /\ UNCHANGED << day, farm, page, inventory, inventory0, fvars, frolling,
                    rolling_capacity, padmit, pday, pacc, prolling, evals >>

\* stage_specific_conditions.get(batch.stage, True)
no_stage_specific_restrictions(batch, prod_remaining, in_window) ==
    IF batch.stage = "BS" THEN check_prod_capacity(prod_remaining, batch)
    ELSE IF batch.stage = "FS" THEN ~ in_window
    ELSE TRUE

\* one iteration of "for batch in hypothetical_inventory"
PlanBatch ==
    /\ pc = "p_batch" /\ idx <= Len(hypothetical_inventory)
    /\ LET batch == hypothetical_inventory[idx]
           caps == rolling_capacity[day + 1].stage
           batch_is_ready == is_ready_to_transition(batch, day)
           stage_capacity_exists == check_stage_capacity(caps, batch)
           moves == /\ batch_is_ready /\ stage_capacity_exists
                    /\ no_stage_specific_restrictions(batch, prod_capacity_remaining,
                                                      in_outplant_window)
           changed == IF moves THEN change_stage(batch, day) ELSE batch
           after == simulate_mortality(changed)
       IN
       /\ hypothetical_inventory' = [hypothetical_inventory EXCEPT ![idx] = after]
       /\ rolling_capacity' =
            IF moves
            THEN [rolling_capacity EXCEPT
                    ![day + 1].stage = decrement(@, changed.stage, changed.quantity)]
            ELSE rolling_capacity
       /\ hypothetical_changes' =
            IF moves
            THEN [hypothetical_changes EXCEPT ![changed.stage] = @ + changed.quantity]
            ELSE hypothetical_changes
       /\ hypothetical_changes_species' =
            IF moves
            THEN [hypothetical_changes_species EXCEPT
                    ![changed.species][changed.stage] = @ + changed.quantity]
            ELSE hypothetical_changes_species
       /\ hyp_cur_inventory' = Put(hyp_cur_inventory, after.batch_id,
                                   [stage |-> after.stage, quantity |-> after.quantity])
       /\ hypothetical_totals' =
            [hypothetical_totals EXCEPT ![after.stage] = @ + after.quantity]
       /\ hypothetical_totals_species' =
            [hypothetical_totals_species EXCEPT
                ![after.species][after.stage] = @ + after.quantity]
       /\ evals' = Append(evals, Evaluation("plan", idx, batch, caps,
                                            Some(prod_capacity_remaining),
                                            in_outplant_window, after))
    /\ idx' = idx + 1
    /\ UNCHANGED << pc, day, farm, page, inventory, inventory0, fvars, frolling,
                    shortfall, species_shortfall, new_species, pday, prolling >>

\* mutation: the day's stage pool was a copy; the forecast's record keeps the
\* residual forecast left in it
PlanEndDayOnCopy ==
    /\ pc = "p_batch" /\ idx > Len(hypothetical_inventory)
    /\ hypothetical_rolling_inventory' =
         Append(hypothetical_rolling_inventory, hyp_cur_inventory)
    /\ hypothetical_rolling_totals' =
         Append(hypothetical_rolling_totals,
                [overall |-> hypothetical_totals, species |-> hypothetical_totals_species])
    /\ hypothetical_rolling_capacity' =
         Append(hypothetical_rolling_capacity,
                [prod |-> prod_capacity_remaining, broodstock |-> bs_capacity_remaining,
                 stage |-> rolling_capacity[day + 1].stage])
    /\ hypothetical_rolling_changes' =
         Append(hypothetical_rolling_changes,
                [overall |-> hypothetical_changes, species |-> hypothetical_changes_species])
    /\ rolling_capacity' =
         [rolling_capacity EXCEPT ![day + 1].stage =
             [s \in Stages |-> @[s] + hypothetical_changes[s]]]
    /\ day' = day + 1 /\ pc' = "p_day"
    /\ UNCHANGED << idx, farm, page, inventory, inventory0, fvars, frolling,
                    padmit, pday, pacc, evals >>

\* the day's records; the capacity record holds the day's stage dict itself
PlanEndDay ==
    /\ pc = "p_batch" /\ idx > Len(hypothetical_inventory)
    /\ hypothetical_rolling_inventory' =
         Append(hypothetical_rolling_inventory, hyp_cur_inventory)
    /\ hypothetical_rolling_totals' =
         Append(hypothetical_rolling_totals,
                [overall |-> hypothetical_totals, species |-> hypothetical_totals_species])
    /\ hypothetical_rolling_capacity' =
         Append(hypothetical_rolling_capacity,
                [prod |-> prod_capacity_remaining, broodstock |-> bs_capacity_remaining,
                 stage |-> rolling_capacity[day + 1].stage])
    /\ hypothetical_rolling_changes' =
         Append(hypothetical_rolling_changes,
                [overall |-> hypothetical_changes, species |-> hypothetical_changes_species])
    /\ day' = day + 1 /\ pc' = "p_day"
    /\ UNCHANGED << idx, farm, page, inventory, inventory0, fvars, frolling,
                    rolling_capacity, padmit, pday, pacc, evals >>

\* plan_future returns its four series
PlanReturn ==
    /\ pc = "p_day" /\ day = Days
    /\ pc' = "done"
    /\ UNCHANGED << day, idx, farm, page, inventory, inventory0, fvars, frolling,
                    rolling_capacity, padmit, pday, pacc, prolling, evals >>

(* ---------------------- utils.create_unified_result ------------------- *)
\* dict.get(key, default)
get(dict, key, default) == IF key \in DOMAIN dict THEN dict[key] ELSE default

\* mutation: only the keys and species that both runs hold are merged
merge_day_common_keys(day_data1, day_data2) ==
    [ overall |->
        [key \in DOMAIN day_data1.overall \cap DOMAIN day_data2.overall |->
            get(day_data1.overall, key, 0) + get(day_data2.overall, key, 0)],
      species |->
        [species \in DOMAIN day_data1.species \cap DOMAIN day_data2.species |->
            [key \in DOMAIN get(day_data1.species, species, EmptyDict)
                        \cap DOMAIN get(day_data2.species, species, EmptyDict) |->
                get(get(day_data1.species, species, EmptyDict), key, 0)
                  + get(get(day_data2.species, species, EmptyDict), key, 0)]] ]

\* merged_day of merge_lists, for totals and changes
merge_day(day_data1, day_data2) ==
    [ overall |->
        [key \in DOMAIN day_data1.overall \cup DOMAIN day_data2.overall |->
            get(day_data1.overall, key, 0) + get(day_data2.overall, key, 0)],
      species |->
        [species \in DOMAIN day_data1.species \cup DOMAIN day_data2.species |->
            [key \in DOMAIN get(day_data1.species, species, EmptyDict)
                        \cup DOMAIN get(day_data2.species, species, EmptyDict) |->
                get(get(day_data1.species, species, EmptyDict), key, 0)
                  + get(get(day_data2.species, species, EmptyDict), key, 0)]] ]

\* zip(list1, list2) stops at the shorter list
merge_lists(list1, list2) ==
    [d \in 1..Min(Len(list1), Len(list2)) |-> merge_day(list1[d], list2[d])]

\* mutation: the unified inventory and capacity are the forecast run's
create_unified_result_of_forecast(forecast_result, hypothetical_result) ==
    << forecast_result[1],
       merge_lists(forecast_result[2], hypothetical_result[2]),
       merge_lists(forecast_result[3], hypothetical_result[3]),
       forecast_result[4] >>

\* the four series: inventory, totals, changes, capacity
create_unified_result(forecast_result, hypothetical_result) ==
    << hypothetical_result[1],
       merge_lists(forecast_result[2], hypothetical_result[2]),
       merge_lists(forecast_result[3], hypothetical_result[3]),
       hypothetical_result[4] >>

\* forecast_page.py merges the two runs and keeps the result
CreateUnifiedResult ==
    /\ pc = "done"
    /\ unified_result' =
         create_unified_result(
             << rolling_inventory, rolling_totals, rolling_changes, rolling_capacity >>,
             << hypothetical_rolling_inventory, hypothetical_rolling_totals,
                hypothetical_rolling_changes, hypothetical_rolling_capacity >>)
    /\ pc' = "unified"
    /\ UNCHANGED << day, idx, farm, df_batches, first_result, inventory, inventory0,
                    fvars, frolling, rolling_capacity, padmit, pday, pacc, prolling,
                    evals >>

Next ==
    \/ ForecastStartDay \/ ForecastBatch \/ ForecastEndDay
    \/ PlanFutureStart
    \/ PlanStartDay \/ PlanAdmit \/ PlanAdmitFault \/ PlanAdmitExit
    \/ PlanBatch \/ PlanEndDay \/ PlanReturn
    \/ CreateUnifiedResult

Spec == Init /\ [][Next]_vars

(* --------------------- Farm.forecast called twice --------------------- *)
\* the four series forecast returns
forecast_result ==
    << rolling_inventory, rolling_totals, rolling_changes, rolling_capacity >>

\* forecast has returned; its series are kept and a second Farm, built from
\* inputs equal to the first one's, starts its own forecast
ForecastAgain ==
    /\ pc = "f_day" /\ day = Days /\ first_result = None
    /\ first_result' = Some(forecast_result)
    /\ inventory' = inventory0
    /\ day' = 0 /\ idx' = 1
    /\ cur_inventory' = EmptyDict
    /\ cur_totals' = totals_zero
    /\ cur_totals_species' = [s \in farm.forecast_species_set |-> totals_zero]
    /\ forecast_changes' = totals_zero
    /\ forecast_changes_species' = [s \in farm.forecast_species_set |-> totals_zero]
    /\ stage_capacity_remaining' = farm.stage_capacities
    /\ rolling_inventory' = << >> /\ rolling_totals' = << >>
    /\ rolling_changes' = << >> /\ rolling_capacity' = << >>
    /\ evals' = << >>
    /\ UNCHANGED << pc, farm, df_batches, unified_result, inventory0,
                    padmit, pday, pacc, prolling >>

NextTwice ==
    \/ ForecastStartDay \/ ForecastBatch \/ ForecastEndDay
    \/ ForecastAgain

SpecTwice == Init /\ [][NextTwice]_vars

(* ------------------ Farm.forecast run to its last day ----------------- *)
\* forecast is one thread of nested for loops: a loop iteration that can be
\* taken is taken, so each of its steps is weakly fair
NextForecast == ForecastStartDay \/ ForecastBatch \/ ForecastEndDay

\* a Farm without no-outplant window, which forecast does not read
InitForecast ==
    \E n \in 0..MaxBatches :
    \E rows \in [1..n -> InputRows] :
    \E caps \in StageCapacityChoices, po \in ProductionOrders,
       pt \in ProdTankChoices, bt \in BsTankChoices :
    InitFarm(InventoryOf(n, rows), caps, po, pt, bt, << None, None >>)

SpecForecast ==
    /\ InitForecast /\ [][NextForecast]_vars
    /\ WF_vars(ForecastStartDay) /\ WF_vars(ForecastBatch) /\ WF_vars(ForecastEndDay)

(* ------------- Farm.forecast under two facility settings -------------- *)
\* the Farm of the first run: no window, two production tanks of 1000, the
\* usual broodstock tanks
InitSettings ==
    \E n \in 0..MaxBatches :
    \E rows \in [1..n -> InputRows] :
    \E caps \in StageCapacityChoices, bt \in BsTankChoices :
    InitFarm(InventoryOf(n, rows), caps, [s \in Range(SpeciesOrder) |-> 100],
             << 1000, 2 >>, bt, << None, None >>)

\* forecast has returned; its series are kept and a second Farm starts its
\* own forecast on an equal inventory, with the same stage ceilings and
\* production order and any production tanks, broodstock tanks and window
ForecastReconfigured ==
    /\ pc = "f_day" /\ day = Days /\ first_result = None
    /\ first_result' = Some(forecast_result)
    /\ \E pt \in ProdTankChoices, bt \in BsTankChoices \cup { << 100, 1 >> },
          w \in WindowChoices :
          farm' = Farm(inventory0, pt[1], pt[2], bt[1], bt[2], farm.stage_capacities,
                       farm.production_order, w[1], w[2])
    /\ inventory' = inventory0
    /\ day' = 0 /\ idx' = 1
    /\ cur_inventory' = EmptyDict
    /\ cur_totals' = totals_zero
    /\ cur_totals_species' = [s \in farm.forecast_species_set |-> totals_zero]
    /\ forecast_changes' = totals_zero
    /\ forecast_changes_species' = [s \in farm.forecast_species_set |-> totals_zero]
    /\ stage_capacity_remaining' = farm.stage_capacities
    /\ rolling_inventory' = << >> /\ rolling_totals' = << >>
    /\ rolling_changes' = << >> /\ rolling_capacity' = << >>
    /\ evals' = << >>
    /\ UNCHANGED << pc, df_batches, unified_result, inventory0,
                    padmit, pday, pacc, prolling >>

NextSettings ==
    \/ ForecastStartDay \/ ForecastBatch \/ ForecastEndDay
    \/ ForecastReconfigured

SpecSettings == InitSettings /\ [][NextSettings]_vars

(* ------------------ the pipeline on a small broodstock pool ----------- *)
\* rows of an inventory that is still in broodstock
BroodstockRows ==
    { [species |-> "A", quantity |-> 100, stage |-> "BS", start_date |-> 0],
      [species |-> "B", quantity |-> 60,  stage |-> "BS", start_date |-> 0],
      [species |-> "B", quantity |-> 40,  stage |-> "BS", start_date |-> 0] }

InitBroodstock ==
    \E n \in 1..2 :
    \E rows \in [1..n -> BroodstockRows] :
    \E caps \in StageCapacityChoices, po \in ProductionOrders,
       pt \in ProdTankChoices, bt \in SmallBsTankChoices, w \in WindowChoices :
    InitFarm(InventoryOf(n, rows), caps, po, pt, bt, w)

SpecBroodstock == InitBroodstock /\ [][Next]_vars

(* ------------------- Farm.plan_future called directly ----------------- *)
\* shortfall maps a caller may hand to plan_future
PlanShortfallChoices ==
    { [s \in Range(SpeciesOrder) |-> IF s = "A" THEN 250 ELSE 0],
      [s \in Range(SpeciesOrder) |-> IF s = "A" THEN 100 ELSE 150],
      [s \in Range(SpeciesOrder) |-> IF s = "A" THEN 0 - 100 ELSE 150] }

\* plan_future starts on a Farm without inventory, with a shortfall map and
\* the capacity series forecast returns for such a Farm: every day the full
\* pools and the stage ceilings
InitPlan ==
    \E sfm \in PlanShortfallChoices :
    \E caps \in StageCapacityChoices, po \in ProductionOrders,
       pt \in ProdTankChoices, bt \in BsTankChoices, w \in WindowChoices :
    /\ pc = "p_day" /\ day = 0 /\ idx = 1
    /\ inventory = << >> /\ inventory0 = << >>
    /\ farm = Farm(<< >>, pt[1], pt[2], bt[1], bt[2], caps, po, w[1], w[2])
    /\ cur_inventory = EmptyDict
    /\ cur_totals = totals_zero
    /\ cur_totals_species = EmptyDict
    /\ forecast_changes = totals_zero
    /\ forecast_changes_species = EmptyDict
    /\ stage_capacity_remaining = caps
    /\ rolling_inventory = << >> /\ rolling_totals = << >>
    /\ rolling_changes = << >>
    /\ rolling_capacity = [d \in 1..Days |->
                             [prod |-> pt[1] * pt[2], broodstock |-> bt[1] * bt[2],
                              stage |-> caps]]
    /\ hypothetical_inventory = << >>
    /\ shortfall = SumOver(sfm, SpeciesOrder)
    /\ species_shortfall = sfm
    /\ new_species = None
    /\ in_outplant_window = FALSE
    /\ prod_capacity_remaining = 0 /\ bs_capacity_remaining = 0
    /\ hypothetical_changes = blank_totals
    /\ hypothetical_changes_species = EmptyDict
    /\ hypothetical_totals = blank_totals
    /\ hypothetical_totals_species = EmptyDict
    /\ hyp_cur_inventory = EmptyDict
    /\ hypothetical_rolling_inventory = << >> /\ hypothetical_rolling_totals = << >>
    /\ hypothetical_rolling_changes = << >> /\ hypothetical_rolling_capacity = << >>
    /\ evals = << >>
    /\ df_batches = << >> /\ first_result = None /\ unified_result = None

NextPlan ==
    \/ PlanStartDay \/ PlanAdmit \/ PlanAdmitFault \/ PlanAdmitExit
    \/ PlanBatch \/ PlanEndDay \/ PlanReturn

SpecPlan == InitPlan /\ [][NextPlan]_vars

(* ------------------ Farm.choose_species called directly --------------- *)
\* remaining shortfalls and targets a caller may hand to choose_species
ShortfallChoices == { 0 - 150, 0 - 100, 0 - 50, 0, 50, 100 }
TargetChoices == { 0, 50, 100 }

\* a Farm whose inventory is empty or holds one batch of a species without a
\* target, and a shortfall map over the species of production_order
InitChoose ==
    \E n \in 0..1 :
    \E sfm \in [Range(SpeciesOrder) -> ShortfallChoices],
       po \in [Range(SpeciesOrder) -> TargetChoices] :
    LET inv == [i \in 1..n |->
                  Batch(i, "C", 60, "MF", 0, BsCycleDays, MfCycleDays, FsCycleDays)]
        caps == [BS |-> 1000, MF |-> 300, FS |-> 300, OP |-> 1000]
    IN
    /\ pc = "choose" /\ day = 0 /\ idx = 1
    /\ inventory = inv /\ inventory0 = inv
    /\ farm = Farm(inv, 1000, 2, 150, 2, caps, po, None, None)
    /\ cur_inventory = EmptyDict
    /\ cur_totals = totals_zero
    /\ cur_totals_species = [s \in { inv[i].species : i \in DOMAIN inv } |-> totals_zero]
    /\ forecast_changes = totals_zero
    /\ forecast_changes_species = [s \in { inv[i].species : i \in DOMAIN inv } |-> totals_zero]
    /\ stage_capacity_remaining = caps
    /\ rolling_inventory = << >> /\ rolling_totals = << >>
    /\ rolling_changes = << >> /\ rolling_capacity = << >>
    /\ hypothetical_inventory = << >> /\ shortfall = 0
    /\ species_shortfall = sfm
    /\ new_species = None
    /\ in_outplant_window = FALSE
    /\ prod_capacity_remaining = 0 /\ bs_capacity_remaining = 0
    /\ hypothetical_changes = blank_totals
    /\ hypothetical_changes_species = EmptyDict
    /\ hypothetical_totals = blank_totals
    /\ hypothetical_totals_species = EmptyDict
    /\ hyp_cur_inventory = EmptyDict
    /\ hypothetical_rolling_inventory = << >> /\ hypothetical_rolling_totals = << >>
    /\ hypothetical_rolling_changes = << >> /\ hypothetical_rolling_capacity = << >>
    /\ evals = << >>
    /\ df_batches = << >> /\ first_result = None /\ unified_result = None

\* choose_species returns the species sp
ChooseReturns(sp) ==
    /\ pc = "choose"
    /\ sp \in choose_species(SpeciesOrder, species_shortfall,
                              farm.production_order, farm.complete_species_set)
    /\ new_species' = Some(sp)
    /\ pc' = "chosen"
    /\ UNCHANGED << day, idx, farm, page, inventory, inventory0, fvars, frolling,
                    rolling_capacity, hypothetical_inventory, shortfall,
                    species_shortfall, pday, pacc, prolling, evals >>

ChooseSpecies == \E sp \in farm.complete_species_set : ChooseReturns(sp)

\* choose_species raises ZeroDivisionError
ChooseSpeciesFault ==
    /\ pc = "choose"
    /\ choose_species(SpeciesOrder, species_shortfall,
                      farm.production_order, farm.complete_species_set) = {}
    /\ pc' = "error"
    /\ UNCHANGED << day, idx, farm, page, inventory, inventory0, fvars, frolling,
                    rolling_capacity, padmit, pday, pacc, prolling, evals >>

NextChoose == ChooseSpecies \/ ChooseSpeciesFault

SpecChoose == InitChoose /\ [][NextChoose]_vars

(* ------------------------ bigquery_util.row_to_batch ------------------ *)
DEFAULT_BS_QUANTITY == 100

\* a cell of a row: a value, or one of the missing values None, NaN and NaT
Cell(v) == [na |-> "", v |-> v]
PyNone == [na |-> "None", v |-> 0]
NaN == [na |-> "NaN", v |-> 0]
NaT == [na |-> "NaT", v |-> 0]

\* pd.isna(value) or value is None
is_na(value) == value.na # ""

\* int(safe_get(value, default))
safe_get(value, default) == IF is_na(value) THEN default ELSE value.v

\* the columns of a row that decide stage and quantity; the cycle columns
\* are missing, so the Batch gets the default cycle lengths
RowChoices ==
    [ Alteration : { "broodstock", "mf", "fs", "spawn" },
      CurrentLocationType : { "ex situ", "in situ" },
      OutplantDate : { PyNone, NaT, Cell(0 - 3) },
      CurrentQuantity : { Cell(60), NaN },
      CurrentFSPlugCount : { Cell(40), NaN } ]

\* the if/elif chain: the stage and the raw quantity, None where it raises
stage_and_quantity(row) ==
    IF row.Alteration = "broodstock" THEN Some(<< "BS", Cell(DEFAULT_BS_QUANTITY) >>)
    ELSE IF row.Alteration = "mf" THEN Some(<< "MF", row.CurrentQuantity >>)
    ELSE IF row.Alteration = "fs" /\ row.CurrentLocationType = "ex situ"
    THEN Some(<< "FS", row.CurrentFSPlugCount >>)
    ELSE IF row.Alteration = "mf" /\ row.OutplantDate # PyNone
    THEN Some(<< "OP", row.CurrentQuantity >>)
    ELSE IF row.Alteration = "fs" /\ row.OutplantDate # PyNone
    THEN Some(<< "OP", row.CurrentFSPlugCount >>)
    ELSE None

\* the Batch of a row, None where row_to_batch raises ValueError
row_to_batch(row) ==
    IF stage_and_quantity(row) = None THEN None
    ELSE LET stage == stage_and_quantity(row)[1][1]
             quantity == stage_and_quantity(row)[1][2]
         IN Some(Batch(row.BatchID, row.Species,
                       safe_get(quantity, DEFAULT_BS_QUANTITY), stage, row.StartDate,
                       BsCycleDays, MfCycleDays, FsCycleDays))

\* the page has fetched a frame of rows
InitRows ==
    \E n \in 1..MaxRows :
    \E rows \in [1..n -> RowChoices] :
    LET caps == [BS |-> 1000, MF |-> 300, FS |-> 300, OP |-> 1000] IN
    /\ pc = "rows" /\ day = 0 /\ idx = 1
    /\ df_batches = [i \in 1..n |->
                       [ BatchID |-> i, Species |-> "A", StartDate |-> 0,
                         Alteration |-> rows[i].Alteration,
                         CurrentLocationType |-> rows[i].CurrentLocationType,
                         OutplantDate |-> rows[i].OutplantDate,
                         CurrentQuantity |-> rows[i].CurrentQuantity,
                         CurrentFSPlugCount |-> rows[i].CurrentFSPlugCount ]]
    /\ first_result = None /\ unified_result = None
    /\ inventory = << >> /\ inventory0 = << >>
    /\ farm = Farm(<< >>, 1000, 2, 150, 2, caps,
                   [s \in Range(SpeciesOrder) |-> 100], None, None)
    /\ cur_inventory = EmptyDict
    /\ cur_totals = totals_zero
    /\ cur_totals_species = EmptyDict
    /\ forecast_changes = totals_zero
    /\ forecast_changes_species = EmptyDict
    /\ stage_capacity_remaining = caps
    /\ rolling_inventory = << >> /\ rolling_totals = << >>
    /\ rolling_changes = << >> /\ rolling_capacity = << >>
    /\ hypothetical_inventory = << >> /\ shortfall = 0
    /\ species_shortfall = [s \in Range(SpeciesOrder) |-> 0]
    /\ new_species = None
    /\ in_outplant_window = FALSE
    /\ prod_capacity_remaining = 0 /\ bs_capacity_remaining = 0
    /\ hypothetical_changes = blank_totals
    /\ hypothetical_changes_species = EmptyDict
    /\ hypothetical_totals = blank_totals
    /\ hypothetical_totals_species = EmptyDict
    /\ hyp_cur_inventory = EmptyDict
    /\ hypothetical_rolling_inventory = << >> /\ hypothetical_rolling_totals = << >>
    /\ hypothetical_rolling_changes = << >> /\ hypothetical_rolling_capacity = << >>
    /\ evals = << >>

\* batches_list = [row_to_batch(row) for _, row in df_batches.iterrows()]
RowsToBatches ==
    /\ pc = "rows"
    /\ \A i \in DOMAIN df_batches : row_to_batch(df_batches[i]) # None
    /\ inventory' = [i \in DOMAIN df_batches |-> row_to_batch(df_batches[i])[1]]
    /\ pc' = "mapped"
    /\ UNCHANGED << day, idx, farm, page, inventory0, fvars, frolling,
                    rolling_capacity, padmit, pday, pacc, prolling, evals >>

\* a row raises ValueError: no list is built
RowsToBatchesFault ==
    /\ pc = "rows"
    /\ \E i \in DOMAIN df_batches : row_to_batch(df_batches[i]) = None
    /\ pc' = "error"
    /\ UNCHANGED << day, idx, farm, page, inventory, inventory0, fvars, frolling,
                    rolling_capacity, padmit, pday, pacc, prolling, evals >>

NextRows == RowsToBatches \/ RowsToBatchesFault

SpecRows == InitRows /\ [][NextRows]_vars

(* ============================== properties ============================ *)
NextStage(stage) ==
    IF stage = "BS" THEN "MF" ELSE IF stage = "MF" THEN "FS" ELSE "OP"

StageNo(stage) ==
    IF stage = "BS" THEN 1 ELSE IF stage = "MF" THEN 2
    ELSE IF stage = "FS" THEN 3 ELSE 4

CycleOf(batch) ==
    IF batch.stage = "BS" THEN batch.bs_cycle_days
    ELSE IF batch.stage = "MF" THEN batch.mf_cycle_days
    ELSE batch.fs_cycle_days

Quantities(inv) == [i \in DOMAIN inv |-> inv[i].quantity]

\* the step changes the stage of batch i of the list
Moved(old, new, i) ==
    i \in DOMAIN old /\ i \in DOMAIN new /\ new[i].stage # old[i].stage

\* the step keeps the stage of the batch or moves it one stage forward
OneStageForward(old, new) ==
    \/ new.stage = old.stage
    \/ old.stage # "OP" /\ new.stage = NextStage(old.stage)

\* C1: in both passes every change of a batch's stage is BS->MF, MF->FS or
\* FS->OP: no stage is skipped, no batch moves back, and a batch in OP never
\* changes stage again.
C1_StageOrder ==
    [][ /\ \A i \in DOMAIN inventory :
             /\ i \in DOMAIN inventory'
             /\ OneStageForward(inventory[i], inventory'[i])
        /\ \A i \in DOMAIN hypothetical_inventory :
             /\ i \in DOMAIN hypothetical_inventory'
             /\ OneStageForward(hypothetical_inventory[i], hypothetical_inventory'[i])
      ]_vars

\* a forecast batch that started in BS and a planned batch have both gone
\* all the way to OP
C1_Witness ==
    /\ \E i \in DOMAIN inventory :
         inventory0[i].stage = "BS" /\ inventory[i].stage = "OP"
    /\ \E i \in DOMAIN hypothetical_inventory : hypothetical_inventory[i].stage = "OP"

\* C2: in both passes a batch changes stage on day d only in its own
\* evaluation, only if it has an end date and d >= that end date, and only if
\* the capacity remaining for its next stage at that moment is >= its
\* quantity; a batch without end date never changes stage.
C2_TransitionCondition ==
    [][ /\ \A i \in DOMAIN inventory :
             Moved(inventory, inventory', i) =>
                /\ pc = "f_batch" /\ idx = i
                /\ inventory[i].end_date # None
                /\ day >= inventory[i].end_date[1]
                /\ stage_capacity_remaining[NextStage(inventory[i].stage)]
                      >= inventory[i].quantity
        /\ \A i \in DOMAIN hypothetical_inventory :
             Moved(hypothetical_inventory, hypothetical_inventory', i) =>
                /\ pc = "p_batch" /\ idx = i
                /\ hypothetical_inventory[i].end_date # None
                /\ day >= hypothetical_inventory[i].end_date[1]
                /\ rolling_capacity[day + 1].stage[NextStage(hypothetical_inventory[i].stage)]
                      >= hypothetical_inventory[i].quantity
      ]_vars

\* the whole life in days of a batch that is never held back
FullCycle == BsCycleDays + MfCycleDays + FsCycleDays

\* batch i of the forecast started in BS and reached OP later than its cycle
\* lengths alone give: it was refused on a day it was ready
HeldBack(i) ==
    /\ inventory0[i].stage = "BS" /\ inventory[i].stage = "OP"
    /\ inventory[i].start_date > inventory0[i].start_date + FullCycle

\* a planned batch has just changed stage, after a forecast in which a ready
\* batch was refused for lack of capacity and moved on a later day
C2_Witness ==
    /\ pc = "p_batch"
    /\ \E k \in DOMAIN evals : evals[k].moved
    /\ \E i \in DOMAIN inventory : HeldBack(i)

ScheduleKept(batch) ==
    IF batch.stage \in {"BS", "MF", "FS"}
    THEN batch.end_date = Some(batch.start_date + CycleOf(batch))
    ELSE batch.end_date = None

AllSchedulesKept ==
    \A inv \in {inventory, hypothetical_inventory} :
        \A i \in DOMAIN inv : ScheduleKept(inv[i])

\* the transition restarted the batch on day d and kept its quantity
Restarted(old, new, d) == new.start_date = d /\ new.quantity = old.quantity

\* C3: every batch in BS, MF or FS has end_date = start_date + the cycle
\* length of its stage and every batch in OP has no end date; a transition on
\* day d sets start_date to d and keeps the quantity.
C3_Schedule ==
    /\ [] AllSchedulesKept
    /\ [][ \A i \in DOMAIN inventory \cup DOMAIN hypothetical_inventory :
             /\ Moved(inventory, inventory', i) =>
                  Restarted(inventory[i], inventory'[i], day)
             /\ Moved(hypothetical_inventory, hypothetical_inventory', i) =>
                  Restarted(hypothetical_inventory[i], hypothetical_inventory'[i], day)
       ]_vars

\* a forecast batch and a planned batch both changed stage on a day later
\* than the end date they had
C3_Witness ==
    /\ \E i \in DOMAIN inventory : HeldBack(i)
    /\ \E i \in DOMAIN hypothetical_inventory :
         /\ hypothetical_inventory[i].stage = "OP"
         /\ hypothetical_inventory[i].start_date > FullCycle

StageSum(totals) == totals.BS + totals.MF + totals.FS + totals.OP

\* C4: on every day of forecast the overall totals BS+MF+FS+OP equal the sum
\* of the quantities of the inventory at the start of the run; forecast
\* creates no batch, removes none and changes no quantity.
C4_QuantityConservation ==
    /\ Quantities(inventory) = Quantities(inventory0)
    /\ \A d \in DOMAIN rolling_totals :
         StageSum(rolling_totals[d].overall) = SeqSum(Quantities(inventory0))

\* the forecast is over, it held stock and moved some of it
C4_Witness ==
    /\ Len(rolling_totals) = Days
    /\ SeqSum(Quantities(inventory0)) > 0
    /\ \E d \in DOMAIN rolling_changes : StageSum(rolling_changes[d].overall) > 0

\* C5: on every day of forecast and for every stage, the quantity that
\* entered the stage that day is <= the ceiling of the stage; a batch whose
\* quantity exceeds the ceiling of a stage never enters that stage.
C5_StageCeiling ==
    /\ \A s \in Stages :
         /\ forecast_changes[s] <= farm.stage_capacities[s]
         /\ \A d \in DOMAIN rolling_changes :
               rolling_changes[d].overall[s] <= farm.stage_capacities[s]
    /\ \A i \in DOMAIN inventory : \A s \in Stages :
         ( /\ StageNo(inventory0[i].stage) < StageNo(s)
           /\ inventory0[i].quantity > farm.stage_capacities[s] )
         => StageNo(inventory[i].stage) < StageNo(s)

\* the forecast is over: a batch larger than the ceiling of its next stage
\* was ready within the horizon and is still where it started, while another
\* batch of the inventory changed stage
C5_Witness ==
    /\ pc = "p_day"
    /\ \E i \in DOMAIN inventory :
         /\ inventory[i].stage = "BS" /\ inventory0[i].stage = "BS"
         /\ inventory[i].quantity > farm.stage_capacities["MF"]
         /\ inventory[i].end_date[1] < Days
    /\ \E d \in DOMAIN rolling_changes :
         StageSum(rolling_changes[d].overall) > 0

\* the evaluation found the batch ready: it had an end date, not after the day
Ready(e) == e.end_date # None /\ e.day >= e.end_date[1]

\* two evaluations of one day compete: both batches are ready for the same
\* next stage, whose capacity as the first one found it holds either batch
\* but not both
Compete(first, second) ==
    /\ first.stage = second.stage /\ first.stage # "OP"
    /\ Ready(first) /\ Ready(second)
    /\ LET cap == first.caps[NextStage(first.stage)]
       IN /\ cap >= first.quantity /\ cap >= second.quantity
          /\ cap < first.quantity + second.quantity

\* C6: in forecast, when two batches are ready on the same day for the same
\* next stage and the remaining capacity admits either alone but not both,
\* the one listed first changes stage that day and the later one does not.
C6_FirstListedWins ==
    \A j, k \in DOMAIN evals :
        ( /\ j < k
          /\ evals[j].pass = "forecast" /\ evals[k].pass = "forecast"
          /\ Compete(evals[j], evals[k]) )
        => evals[j].moved /\ ~ evals[k].moved

\* two batches of the forecast competed on one day
C6_Witness ==
    \E j, k \in DOMAIN evals :
        /\ j < k
        /\ evals[j].pass = "forecast" /\ evals[k].pass = "forecast"
        /\ Compete(evals[j], evals[k])
        /\ evals[j].moved

\* C7: in forecast each stage's remaining capacity equals its ceiling at the
\* start of every day, and the per-stage residual forecast records for day d
\* is the ceiling minus the quantity that entered the stage on day d alone.
C7_FreshDailyPool ==
    pc \in {"f_day", "f_batch"} =>
        /\ (pc = "f_batch" /\ idx = 1) => stage_capacity_remaining = farm.stage_capacities
        /\ \A d \in DOMAIN rolling_capacity : \A s \in Stages :
             rolling_capacity[d].stage[s]
               = farm.stage_capacities[s] - rolling_changes[d].overall[s]

\* forecast has recorded a day on which a stage took in stock after an
\* earlier day on which the same stage took in stock
C7_Witness ==
    /\ pc \in {"f_day", "f_batch"}
    /\ \E d1, d2 \in DOMAIN rolling_changes : \E s \in Stages :
         /\ d1 < d2
         /\ rolling_changes[d1].overall[s] > 0
         /\ rolling_changes[d2].overall[s] > 0

\* day d lies in the configured no-outplant window, bounds included
Closed(d) ==
    /\ farm.no_outplant_window_start # None
    /\ farm.no_outplant_window_end # None
    /\ farm.no_outplant_window_start[1] <= d
    /\ d <= farm.no_outplant_window_end[1]

\* C8: in plan_future, on every day inside the no-outplant window (both
\* bounds set, bounds included) no planned batch goes from FS to OP, also when
\* it is ready and the OP capacity suffices.
C8_NoOutplantInWindow ==
    /\ \A k \in DOMAIN evals :
         (evals[k].pass = "plan" /\ Closed(evals[k].day))
         => ~ (evals[k].stage = "FS" /\ evals[k].moved)
    /\ \A d \in DOMAIN hypothetical_rolling_changes :
         Closed(d - 1) => hypothetical_rolling_changes[d].overall.OP = 0
    /\ (pc \in {"p_admit", "p_batch"} /\ Closed(day)) => hypothetical_changes.OP = 0

\* inside the window a planned FS batch was ready, the OP capacity held it,
\* and it stayed in FS
C8_Witness ==
    \E k \in DOMAIN evals :
        /\ evals[k].pass = "plan" /\ Closed(evals[k].day)
        /\ evals[k].stage = "FS" /\ Ready(evals[k])
        /\ evals[k].caps["OP"] >= evals[k].quantity
        /\ ~ evals[k].moved

\* the evaluation is of a planned FS batch whose end date lies in the window
DueInWindow(e) ==
    /\ e.pass = "plan" /\ e.stage = "FS"
    /\ e.end_date # None /\ Closed(e.end_date[1])

\* C9: in plan_future a planned FS batch whose end date lies in the window
\* stays in FS on every day up to and including the last day of the window,
\* and goes to OP on the day after it when the OP capacity holds its quantity.
C9_OutplantAfterWindow ==
    \A k \in DOMAIN evals :
        DueInWindow(evals[k]) =>
            /\ evals[k].day <= farm.no_outplant_window_end[1] => ~ evals[k].moved
            /\ ( /\ evals[k].day = farm.no_outplant_window_end[1] + 1
                 /\ evals[k].caps["OP"] >= evals[k].quantity )
               => evals[k].moved /\ evals[k].new_stage = "OP"

\* a planned FS batch due inside the window went to OP the day after it
C9_Witness ==
    \E k \in DOMAIN evals :
        /\ DueInWindow(evals[k])
        /\ evals[k].day = farm.no_outplant_window_end[1] + 1
        /\ evals[k].moved

\* the step appends a batch to the hypothetical inventory
Admitted == Len(hypothetical_inventory') = Len(hypothetical_inventory) + 1

\* C10: every batch the admission loop creates is in BS, starts on the
\* current day and has quantity min(shortfall, BS-stage pool, broodstock
\* pool, 100); the aggregate shortfall, the two pools and the species'
\* shortfall go down by that quantity and the day's BS changes, overall and
\* of the species, go up by it.
C10_Admission ==
    [][ Admitted =>
          LET new_batch == hypothetical_inventory'[Len(hypothetical_inventory')]
              pool == rolling_capacity[day + 1].stage["BS"]
              q == Min(Min(shortfall, pool), Min(bs_capacity_remaining, MaxBatchQuantity))
              sp == new_batch.species
          IN /\ new_batch.stage = "BS"
             /\ new_batch.start_date = day
             /\ new_batch.quantity = q
             /\ shortfall' = shortfall - q
             /\ rolling_capacity'[day + 1].stage["BS"] = pool - q
             /\ bs_capacity_remaining' = bs_capacity_remaining - q
             /\ species_shortfall'[sp] = species_shortfall[sp] - q
             /\ hypothetical_changes'["BS"] = hypothetical_changes["BS"] + q
             /\ hypothetical_changes_species'[sp]["BS"]
                  = hypothetical_changes_species[sp]["BS"] + q
      ]_vars

\* the admission loop has created a batch of 100 and, on the same day, a
\* smaller one that a pool or the shortfall bounded
C10_Witness ==
    /\ pc = "p_admit"
    /\ \E i, j \in DOMAIN hypothetical_inventory :
         /\ hypothetical_inventory[i].quantity = MaxBatchQuantity
         /\ hypothetical_inventory[j].quantity > 0
         /\ hypothetical_inventory[j].quantity < MaxBatchQuantity
         /\ hypothetical_inventory[i].start_date = day
         /\ hypothetical_inventory[j].start_date = day
         /\ hypothetical_inventory[i].stage = "BS"
         /\ hypothetical_inventory[j].stage = "BS"

\* the admission loop is left: the step goes from it to the batch loop or
\* out of plan_future
LeavesAdmission == pc = "p_admit" /\ pc' # "p_admit"

\* C11: every iteration of the admission loop admits a batch of quantity >= 1
\* and strictly decreases the aggregate shortfall, which is positive whenever
\* an iteration starts, so a day's loop makes at most as many iterations as
\* the shortfall it started with; when the loop is left the aggregate
\* shortfall is <= 0 or the BS-stage pool is <= 0 or the broodstock pool is
\* <= 0.
C11_AdmissionTerminates ==
    [][ /\ Admitted =>
             /\ hypothetical_inventory'[Len(hypothetical_inventory')].quantity >= 1
             /\ shortfall > 0
             /\ shortfall' < shortfall
        /\ LeavesAdmission =>
             \/ shortfall' <= 0
             \/ rolling_capacity'[day + 1].stage["BS"] <= 0
             \/ bs_capacity_remaining' <= 0
      ]_vars

\* the quantities of the batches of the hypothetical inventory, in list order
PlannedQuantities == Quantities(hypothetical_inventory)

\* the day-0 admission loop has ended after starting with an aggregate
\* shortfall of 250 that one species carries alone, a BS-stage pool of 1000
\* and a broodstock pool of 300 (what the loop admitted is the day's BS change)
Scenario250 ==
    /\ pc = "p_batch" /\ day = 0
    /\ shortfall + hypothetical_changes["BS"] = 250
    /\ \E s \in DOMAIN species_shortfall :
         species_shortfall[s] + hypothetical_changes_species[s]["BS"] = 250
    /\ rolling_capacity[1].stage["BS"] + hypothetical_changes["BS"] = 1000
    /\ bs_capacity_remaining + hypothetical_changes["BS"] = 300

\* C12 as stated: with a shortfall of 250 of one species, a BS-stage pool of
\* 1000 and a broodstock pool of 300, day 0 admits exactly 3 batches of 100,
\* leaving the aggregate shortfall at -50 and the broodstock pool at 0.
C12_ThreeFullBatches ==
    Scenario250 =>
        /\ PlannedQuantities = << 100, 100, 100 >>
        /\ shortfall = 0 - 50
        /\ bs_capacity_remaining = 0

\* C12 amended: in that scenario day 0 admits exactly 3 batches, of 100, 100
\* and 50, leaving the aggregate shortfall at 0 and the broodstock pool at 50.
C12_LastBatchCloses ==
    Scenario250 =>
        /\ PlannedQuantities = << 100, 100, 50 >>
        /\ shortfall = 0
        /\ bs_capacity_remaining = 50

C12_Witness == Scenario250 /\ Len(hypothetical_inventory) = 3

\* the share of species s is greater than the share of species t, for
\* positive targets: sf[s] / po[s] > sf[t] / po[t]
ShareGreater(s, t) ==
    species_shortfall[s] * farm.production_order[t]
        > species_shortfall[t] * farm.production_order[s]

SharePositive(s) == species_shortfall[s] > 0 /\ farm.production_order[s] > 0

\* the share of species s is greater than -1
ShareAboveMinusOne(s) == species_shortfall[s] > 0 - farm.production_order[s]

ZeroTarget == \E s \in Range(SpeciesOrder) : farm.production_order[s] = 0

\* species number i of the map has the greatest share, and a greater share
\* than every species before it in the map
FirstGreatest(i) ==
    /\ \A j \in DOMAIN SpeciesOrder : ~ ShareGreater(SpeciesOrder[j], SpeciesOrder[i])
    /\ \A j \in 1..(i - 1) : ShareGreater(SpeciesOrder[i], SpeciesOrder[j])

\* the call may return every known species: the result is the random choice
AnyKnownSpecies == \A s \in farm.complete_species_set : ENABLED ChooseReturns(s)

\* C13 as stated: choose_species returns the species with the greatest share
\* whenever some species has a positive share; when no species has a positive
\* share the result is the random fallback over all known species, not the
\* ranking.
C13_FallbackWithoutPositiveShare ==
    /\ (pc = "chosen" /\ \E s \in Range(SpeciesOrder) : SharePositive(s)) =>
          \E i \in DOMAIN SpeciesOrder :
              new_species = Some(SpeciesOrder[i]) /\ FirstGreatest(i)
    /\ (pc = "choose" /\ ~ ZeroTarget /\ \A s \in Range(SpeciesOrder) : ~ SharePositive(s)) =>
          AnyKnownSpecies

\* C13 amended: with every target positive, choose_species returns the first
\* species in map order with the greatest share whenever some share is > -1,
\* and the random fallback over all known species is used only when every
\* share is <= -1; a target of 0 raises the division error instead.
C13_FallbackBelowMinusOne ==
    /\ pc = "chosen" =>
          /\ ~ ZeroTarget
          /\ IF \E s \in Range(SpeciesOrder) : ShareAboveMinusOne(s)
             THEN \E i \in DOMAIN SpeciesOrder :
                      new_species = Some(SpeciesOrder[i]) /\ FirstGreatest(i)
             ELSE new_species[1] \in farm.complete_species_set
    /\ pc = "choose" /\ ~ ZeroTarget =>
          IF \E s \in Range(SpeciesOrder) : ShareAboveMinusOne(s)
          THEN \E i \in DOMAIN SpeciesOrder :
                  /\ ENABLED ChooseReturns(SpeciesOrder[i])
                  /\ \A s \in farm.complete_species_set \ { SpeciesOrder[i] } :
                        ~ ENABLED ChooseReturns(s)
          ELSE AnyKnownSpecies
    /\ pc = "error" => ZeroTarget

\* the fallback returned a species that is not in the ranking at all
C13_Witness ==
    /\ pc = "chosen" /\ new_species = Some("C")
    /\ \A s \in Range(SpeciesOrder) : ~ ShareAboveMinusOne(s)

\* C14: when a species of the shortfall map has a production target of 0,
\* species selection in plan_future skips it in the ranking and completes:
\* the run does not abort with a division error, and no batch of a species
\* with target 0 is admitted.
C14_ZeroTargetSkipped ==
    ZeroTarget =>
        /\ pc # "error"
        /\ \A i \in DOMAIN hypothetical_inventory :
              farm.production_order[hypothetical_inventory[i].species] # 0

\* the production residual at the start of day d of plan_future, from what
\* forecast and the planner's earlier days recorded
StartOfDayProd(d) ==
    IF d = 0 THEN rolling_capacity[1].prod
    ELSE rolling_capacity[d + 1].prod
           - hypothetical_rolling_totals[d].overall["MF"]
           - hypothetical_rolling_totals[d].overall["FS"]

\* C15: in plan_future a batch makes the BS->MF transition on day d only if
\* its quantity is <= the production residual computed at the start of day d,
\* and every evaluation of day d is tested against that same value: the
\* transitions of the day do not decrement it.
C15_ProdPoolPerDay ==
    pc = "p_batch" =>
        \A j \in DOMAIN evals :
            evals[j].pass = "plan" =>
                /\ evals[j].day = day
                /\ evals[j].prod = Some(StartOfDayProd(day))
                /\ (evals[j].stage = "BS" /\ evals[j].moved) =>
                      /\ evals[j].new_stage = "MF"
                      /\ evals[j].quantity <= StartOfDayProd(day)

\* two planned batches went from BS to MF on one day although the production
\* residual of the day holds only one of them
C15_Witness ==
    /\ pc = "p_batch"
    /\ \E j, k \in DOMAIN evals :
         /\ j < k
         /\ evals[j].pass = "plan" /\ evals[k].pass = "plan"
         /\ evals[j].stage = "BS" /\ evals[j].moved
         /\ evals[k].stage = "BS" /\ evals[k].moved
         /\ evals[j].quantity + evals[k].quantity > StartOfDayProd(day)

\* C16: the intake plan closes the gap per species: once batches have been
\* admitted and the aggregate shortfall has reached 0, no species' remaining
\* shortfall is still positive.
C16_GapClosedPerSpecies ==
    ( /\ pc \in {"p_batch", "p_day", "done"}
      /\ hypothetical_inventory # << >>
      /\ shortfall = 0 )
    => \A s \in DOMAIN species_shortfall : species_shortfall[s] <= 0

\* the stock in stage OP at the end of forecast day d (record number d) that
\* belongs to a species of the set S, counted batch by batch from the day's
\* inventory record; batch number i of the inventory has batch_id i
OPCount(d, S) ==
    SeqSum([i \in DOMAIN inventory0 |->
              IF /\ inventory0[i].species \in S
                 /\ rolling_inventory[d][i].stage = "OP"
              THEN rolling_inventory[d][i].quantity
              ELSE 0])

AllSpecies == { inventory0[i].species : i \in DOMAIN inventory0 }

\* C17: on every day of forecast the overall SF is desired_output minus the
\* day's overall OP count; a species of the inventory that appears in
\* production_order has SF = its target minus its OP count of the day, and a
\* species of the inventory without a target keeps SF 0.
C17_ShortfallFormula ==
    \A d \in DOMAIN rolling_totals :
        /\ rolling_totals[d].overall.SF = desired_output - OPCount(d, AllSpecies)
        /\ DOMAIN rolling_totals[d].species = AllSpecies
        /\ \A s \in AllSpecies :
              rolling_totals[d].species[s].SF =
                  IF s \in DOMAIN farm.production_order
                  THEN farm.production_order[s] - OPCount(d, {s})
                  ELSE 0

\* forecast recorded a day with outplanted stock of a species that has a
\* target and of a species that has none
C17_Witness ==
    \E d \in DOMAIN rolling_totals : \E s, t \in AllSpecies :
        /\ s \in DOMAIN farm.production_order /\ OPCount(d, {s}) > 0
        /\ t \notin DOMAIN farm.production_order /\ OPCount(d, {t}) > 0

\* the stock in the stages of the set S at the end of forecast day d (record
\* number d), counted batch by batch from the day's inventory record
StockIn(d, S) ==
    SeqSum([i \in DOMAIN inventory0 |->
              IF rolling_inventory[d][i].stage \in S
              THEN rolling_inventory[d][i].quantity
              ELSE 0])

\* C18: on every day of forecast the recorded production residual is the
\* production pool (tank capacity x tank count) minus the day's end-of-day
\* MF+FS stock and the recorded broodstock residual is the broodstock pool
\* minus the day's end-of-day BS stock; neither is clamped at 0.
C18_ForecastResiduals ==
    /\ \E pt \in ProdTankChoices : farm.prod_capacity = pt[1] * pt[2]
    /\ \E bt \in BsTankChoices : farm.bs_capacity = bt[1] * bt[2]
    /\ \A d \in DOMAIN rolling_totals :
          /\ rolling_capacity[d].prod = farm.prod_capacity - StockIn(d, {"MF", "FS"})
          /\ rolling_capacity[d].broodstock = farm.bs_capacity - StockIn(d, {"BS"})

\* forecast recorded a day whose MF+FS stock exceeds the production pool
C18_Witness ==
    \E d \in DOMAIN rolling_totals :
        /\ StockIn(d, {"MF", "FS"}) > farm.prod_capacity
        /\ rolling_capacity[d].prod < 0

\* the broodstock residual at the start of day d of plan_future, from what
\* forecast and the planner's earlier days recorded
StartOfDayBs(d) ==
    IF d = 0 THEN rolling_capacity[1].broodstock
    ELSE rolling_capacity[d + 1].broodstock
           - hypothetical_rolling_totals[d].overall["BS"]

\* the day of plan_future has started and nothing has been admitted yet
DayStarted == pc = "p_admit" /\ hypothetical_changes = blank_totals

\* C19: in plan_future the facility residuals at the start of day 0 are the
\* forecast's production and broodstock values for day 0, and at the start of
\* a day d >= 1 they are the forecast's values for day d minus the planner's
\* end-of-day totals of day d-1: MF+FS for production, BS for broodstock.
C19_StartOfDayResiduals ==
    DayStarted =>
        /\ Len(hypothetical_rolling_totals) = day
        /\ prod_capacity_remaining = StartOfDayProd(day)
        /\ bs_capacity_remaining = StartOfDayBs(day)

\* a day starts after a day that ended with planned stock in BS and in MF or FS
C19_Witness ==
    /\ DayStarted /\ day >= 1
    /\ hypothetical_rolling_totals[day].overall["BS"] > 0
    /\ hypothetical_rolling_totals[day].overall["MF"]
         + hypothetical_rolling_totals[day].overall["FS"] > 0

\* C20: each day's capacity record of plan_future gives the pools remaining
\* after that day's activity: its production value is the day's forecast
\* production residual minus the planned MF+FS totals at the end of that day,
\* and its broodstock value is the day's forecast broodstock residual minus
\* the planned BS total at the end of that day.
C20_EndOfDayRecord ==
    \A d \in DOMAIN hypothetical_rolling_capacity :
        /\ hypothetical_rolling_capacity[d].prod =
              rolling_capacity[d].prod
                - hypothetical_rolling_totals[d].overall["MF"]
                - hypothetical_rolling_totals[d].overall["FS"]
        /\ hypothetical_rolling_capacity[d].broodstock =
              rolling_capacity[d].broodstock
                - hypothetical_rolling_totals[d].overall["BS"]

\* the run has been merged: the four unified series
Unified == pc = "unified"
unified_inventory == unified_result[1]
unified_totals == unified_result[2]
unified_changes == unified_result[3]
unified_capacity == unified_result[4]

\* the value of a key of a series' day record, overall (species None) or for
\* a species, 0 when the record does not hold the species or the key
ValueIn(record, species, key) ==
    IF species = None
    THEN (IF key \in DOMAIN record.overall THEN record.overall[key] ELSE 0)
    ELSE IF species[1] \notin DOMAIN record.species THEN 0
    ELSE IF key \notin DOMAIN record.species[species[1]] THEN 0
    ELSE record.species[species[1]][key]

\* the keys a day record holds, overall or for a species
KeysIn(record, species) ==
    IF species = None THEN DOMAIN record.overall
    ELSE IF species[1] \in DOMAIN record.species
         THEN DOMAIN record.species[species[1]]
         ELSE {}

\* the unified series is the key-wise sum of the two series, over the union
\* of species and of keys
SummedKeyWise(unified, first, second) ==
    /\ Len(unified) = Days
    /\ \A d \in 1..Days :
         /\ DOMAIN unified[d].species = DOMAIN first[d].species \cup DOMAIN second[d].species
         /\ \A sp \in {None} \cup { Some(x) : x \in DOMAIN unified[d].species } :
              /\ KeysIn(unified[d], sp) = KeysIn(first[d], sp) \cup KeysIn(second[d], sp)
              /\ \A key \in KeysIn(unified[d], sp) :
                   ValueIn(unified[d], sp, key)
                     = ValueIn(first[d], sp, key) + ValueIn(second[d], sp, key)

\* C21: for every day the unified totals and changes hold, in each overall
\* key and each per-species key, the sum of the forecast run's value and the
\* recovery run's value, over the union of keys and of species of the two
\* runs, a missing key or species counting as 0.
C21_UnifiedSums ==
    Unified =>
        /\ SummedKeyWise(unified_totals, rolling_totals, hypothetical_rolling_totals)
        /\ SummedKeyWise(unified_changes, rolling_changes, hypothetical_rolling_changes)

\* a merged day in which one species has stock in the forecast run only,
\* another in the recovery run only, and a stage has stock of both runs
C21_Witness ==
    /\ Unified
    /\ \E d \in 1..Days :
         /\ \E sp \in DOMAIN rolling_totals[d].species :
              /\ StageSum(rolling_totals[d].species[sp]) > 0
              /\ StageSum(hypothetical_rolling_totals[d].species[sp]) = 0
         /\ \E sp \in DOMAIN hypothetical_rolling_totals[d].species :
              /\ sp \notin DOMAIN rolling_totals[d].species
              /\ StageSum(hypothetical_rolling_totals[d].species[sp]) > 0
         /\ \E s \in Stages :
              /\ rolling_totals[d].overall[s] > 0
              /\ hypothetical_rolling_totals[d].overall[s] > 0
              /\ unified_totals[d].overall[s]
                   = rolling_totals[d].overall[s] + hypothetical_rolling_totals[d].overall[s]

\* C22: the unified capacity is exactly the recovery run's capacity series
\* and the unified inventory exactly the recovery run's inventory series; the
\* forecast run's two series contribute nothing.
C22_RecoveryOnly ==
    Unified =>
        /\ unified_capacity = hypothetical_rolling_capacity
        /\ unified_inventory = hypothetical_rolling_inventory

\* a merged run whose forecast inventory and capacity series differ from the
\* recovery run's on some day
C22_Witness ==
    /\ Unified
    /\ \E d \in 1..Days :
         /\ rolling_inventory[d] # hypothetical_rolling_inventory[d]
         /\ rolling_inventory[d] # EmptyDict
         /\ rolling_capacity[d].prod # hypothetical_rolling_capacity[d].prod
         /\ unified_inventory[d] = hypothetical_rolling_inventory[d]

\* C27: in the unified totals of a forecast run and its recovery run, on
\* every day the overall SF is the target output minus the unified overall OP
\* count and each species' SF is the species' target minus its unified OP
\* count.
C27_UnifiedShortfall ==
    Unified =>
        \A d \in 1..Days :
            /\ unified_totals[d].overall["SF"]
                 = desired_output - unified_totals[d].overall["OP"]
            /\ \A sp \in DOMAIN farm.production_order :
                 /\ sp \in DOMAIN unified_totals[d].species
                 /\ "SF" \in DOMAIN unified_totals[d].species[sp]
                 /\ unified_totals[d].species[sp]["SF"]
                      = farm.production_order[sp] - unified_totals[d].species[sp]["OP"]

\* the inventory holds one batch, which has an end date within the days
\* forecast has recorded so far and fits the ceiling of its next stage
AloneAndFits ==
    /\ Len(inventory0) = 1
    /\ inventory0[1].end_date # None
    /\ inventory0[1].end_date[1] >= 1
    /\ Len(rolling_totals) > inventory0[1].end_date[1]
    /\ inventory0[1].quantity <= farm.stage_capacities[NextStage(inventory0[1].stage)]

\* C23: in forecast a batch that is alone in the inventory and fits the
\* ceiling of its next stage changes stage exactly on the day of its
\* end_date: the totals of the day before count it in the old stage, the
\* totals of that day in the new stage, and the changes of that day record
\* its quantity under the new stage.  Day d is record d + 1 of a series.
C23_MovesOnEndDate ==
    AloneAndFits =>
        LET batch == inventory0[1]
            e == batch.end_date[1]
            old == batch.stage
            new == NextStage(batch.stage)
        IN /\ rolling_totals[e].overall[old] = batch.quantity
           /\ rolling_totals[e].overall[new] = 0
           /\ rolling_changes[e].overall[new] = 0
           /\ rolling_totals[e + 1].overall[old] = 0
           /\ rolling_totals[e + 1].overall[new] = batch.quantity
           /\ rolling_changes[e + 1].overall[new] = batch.quantity

\* a single BS batch of 100 started on day 0 is counted in MF on the day its
\* BS cycle ends
C23_Witness ==
    /\ AloneAndFits
    /\ inventory0[1].stage = "BS" /\ inventory0[1].quantity = 100
    /\ inventory0[1].start_date = 0 /\ inventory0[1].end_date = Some(BsCycleDays)
    /\ rolling_totals[BsCycleDays].overall["BS"] = 100
    /\ rolling_totals[BsCycleDays + 1].overall["MF"] = 100

\* the second of two forecast runs on equal inputs has returned
SecondReturned == pc = "f_day" /\ day = Days /\ first_result # None

C25_SharedStageCeiling ==
    \A d \in DOMAIN hypothetical_rolling_changes : \A s \in Stages :
        rolling_changes[d].overall[s] + hypothetical_rolling_changes[d].overall[s]
            <= farm.stage_capacities[s]

\* on one day a stage took in stock of both runs, and a BS admission filled
\* the BS ceiling
C25_Witness ==
    /\ \E d \in DOMAIN hypothetical_rolling_changes : \E s \in Stages :
          /\ rolling_changes[d].overall[s] > 0
          /\ hypothetical_rolling_changes[d].overall[s] > 0
    /\ \E d \in DOMAIN hypothetical_rolling_changes :
          hypothetical_rolling_changes[d].overall["BS"] = farm.stage_capacities["BS"]

\* C26: given a forecast whose production residual is >= 0 on every day, the
\* planned MF+FS occupancy never exceeds the forecast's production residual
\* of the day, and the production value of every capacity record of
\* plan_future is >= 0.
C26_ProdPoolIsOccupancyLimit ==
    (\A d \in DOMAIN rolling_capacity : rolling_capacity[d].prod >= 0) =>
        \A d \in DOMAIN hypothetical_rolling_capacity :
            /\ hypothetical_rolling_totals[d].overall["MF"]
                 + hypothetical_rolling_totals[d].overall["FS"]
                   <= rolling_capacity[d].prod
            /\ hypothetical_rolling_capacity[d].prod >= 0

\* the sum of the quantities of the entries of an inventory snapshot of
\* plan_future, whose keys are the ids create_batch drew
SnapshotQuantity(snapshot) ==
    SeqSum([id \in 1..MaxTestId |->
              IF id \in DOMAIN snapshot THEN snapshot[id].quantity ELSE 0])

\* C28: every batch admitted by plan_future is visible as its own entry in
\* the inventory snapshot of its admission day and of every later day: the
\* snapshot of a day has as many entries as batches admitted up to that day,
\* and the quantities of its entries sum to the day's overall totals.  The
\* state is the one right after a day's records were appended.
C28_SnapshotComplete ==
    (pc = "p_day" /\ day >= 1) =>
        /\ Len(hypothetical_rolling_inventory) = day
        /\ Cardinality(DOMAIN hypothetical_rolling_inventory[day])
             = Len(hypothetical_inventory)
        /\ SnapshotQuantity(hypothetical_rolling_inventory[day])
             = StageSum(hypothetical_rolling_totals[day].overall)

\* plan_future is running
Planning == pc \in {"p_day", "p_admit", "p_batch"}

\* the step appends a batch to the planner's inventory
Grows == Len(hypothetical_inventory') > Len(hypothetical_inventory)

\* C29: plan_future works on an inventory that is empty when the run starts
\* and grows only by batches it creates itself in stage BS, and it never
\* modifies Farm.inventory: every batch of the forecast inventory keeps its
\* stage, start_date, end_date and quantity.
C29_OwnInventoryOnly ==
    [][ /\ (pc = "f_day" /\ pc' = "p_day") =>
              hypothetical_inventory' = << >> /\ inventory' = inventory
        /\ Planning => inventory' = inventory
        /\ (Planning /\ Grows) =>
              /\ Len(hypothetical_inventory') = Len(hypothetical_inventory) + 1
              /\ SubSeq(hypothetical_inventory', 1, Len(hypothetical_inventory))
                   = hypothetical_inventory
              /\ hypothetical_inventory'[Len(hypothetical_inventory')].stage = "BS"
              /\ hypothetical_inventory'[Len(hypothetical_inventory')].start_date = day
      ]_vars

\* plan_future has returned with batches of its own that changed stage, on a
\* Farm whose inventory changed stage during forecast
C29_Witness ==
    /\ pc = "done"
    /\ \E i \in DOMAIN inventory : inventory[i].stage # inventory0[i].stage
    /\ \E i \in DOMAIN hypothetical_inventory : hypothetical_inventory[i].stage # "BS"
    /\ \A i \in DOMAIN inventory :
          /\ inventory[i].stage = rolling_inventory[Days][i].stage
          /\ inventory[i].quantity = rolling_inventory[Days][i].quantity

\* the row matches none of the mapping rules: its alteration is not
\* broodstock, mf or fs, or it is fs, not ex situ, and has no outplant date
MatchesNoRule(row) ==
    \/ row.Alteration \notin { "broodstock", "mf", "fs" }
    \/ /\ row.Alteration = "fs"
       /\ row.CurrentLocationType # "ex situ"
       /\ is_na(row.OutplantDate)

\* C30: row_to_batch produces no Batch and raises an error for every row
\* that matches none of the mapping rules; it never substitutes a stage.
C30_UnmappedRowRaises ==
    pc \in { "mapped", "error" } =>
        ( (\E i \in DOMAIN df_batches : MatchesNoRule(df_batches[i]))
            => pc = "error" /\ inventory = << >> )

\* the stage counts of a day follow from those of the day before and the
\* day's changes: what entered a stage came out of the stage before it
Balanced(prev, cur, ch) ==
    /\ cur["BS"] = prev["BS"] + ch["BS"] - ch["MF"]
    /\ cur["MF"] = prev["MF"] + ch["MF"] - ch["FS"]
    /\ cur["FS"] = prev["FS"] + ch["FS"] - ch["OP"]
    /\ cur["OP"] = prev["OP"] + ch["OP"]

\* flow balance of a totals series against its changes series, overall and
\* per species, for every recorded day but the first
FlowBalanced(totals, changes) ==
    \A d \in 2..Len(totals) :
        /\ Balanced(totals[d - 1].overall, totals[d].overall, changes[d].overall)
        /\ \A sp \in DOMAIN totals[d].species :
              Balanced(totals[d - 1].species[sp], totals[d].species[sp],
                       changes[d].species[sp])

\* the quantity plan_future admitted on day d, while the batches of that day
\* are still in BS: a batch enters BS only by admission, on its start date
AdmittedOn(d) ==
    SeqSum([i \in DOMAIN hypothetical_inventory |->
              IF hypothetical_inventory[i].stage = "BS"
                 /\ hypothetical_inventory[i].start_date = d
              THEN hypothetical_inventory[i].quantity ELSE 0])

\* C31: in both passes the daily series satisfy flow balance: for every day
\* d >= 1 each stage's total is the total of the day before plus what entered
\* the stage on day d minus what left it for the next stage, overall and per
\* species; in forecast the BS change is always 0, in plan_future it is the
\* day's admissions.
C31_FlowBalance ==
    /\ Len(rolling_changes) = Len(rolling_totals)
    /\ Len(hypothetical_rolling_changes) = Len(hypothetical_rolling_totals)
    /\ FlowBalanced(rolling_totals, rolling_changes)
    /\ FlowBalanced(hypothetical_rolling_totals, hypothetical_rolling_changes)
    /\ \A d \in DOMAIN rolling_changes :
          /\ rolling_changes[d].overall["BS"] = 0
          /\ \A sp \in DOMAIN rolling_changes[d].species :
                rolling_changes[d].species[sp]["BS"] = 0
    /\ (pc \in {"p_admit", "p_batch"}) => hypothetical_changes["BS"] = AdmittedOn(day)
    /\ (pc = "p_day" /\ day >= 1) =>
          hypothetical_rolling_changes[day].overall["BS"] = AdmittedOn(day - 1)

\* both runs are over; after day 0 stock entered FS and OP in the forecast
\* run, and in the recovery run batches were admitted and stock entered MF,
\* FS and OP
C31_Witness ==
    /\ pc = "done"
    /\ \E d \in 2..Days : rolling_changes[d].overall["FS"] > 0
    /\ \E d \in 2..Days : rolling_changes[d].overall["OP"] > 0
    /\ \E d \in 2..Days : hypothetical_rolling_changes[d].overall["BS"] > 0
    /\ \A s \in {"MF", "FS", "OP"} :
          \E d \in 2..Days : hypothetical_rolling_changes[d].overall[s] > 0

\* plan_future has been entered
PlanStarted == pc \in {"p_day", "p_admit", "p_batch", "done", "unified", "error"}

\* the aggregate shortfall plan_future started with: the sum of the map that
\* forecast_page.py derives from the last day of the forecast
StartShortfall ==
    SumOver(final_shortfall_species(rolling_totals[Days], farm.production_order),
            SpeciesOrder)

\* every value of a day record, overall and per species, is 0
AllZero(record) ==
    /\ \A s \in Stages : record.overall[s] = 0
    /\ \A sp \in DOMAIN record.species : \A s \in Stages : record.species[sp][s] = 0

\* C32: over a whole run of plan_future started with a positive aggregate
\* shortfall S, the total quantity admitted on all days is <= S and the
\* remaining aggregate shortfall is never below 0; when the run starts with an
\* aggregate shortfall <= 0 no batch is admitted on any day and all recovery
\* totals and changes are 0.
C32_AdmissionBounded ==
    PlanStarted =>
        /\ shortfall = StartShortfall - SeqSum(PlannedQuantities)
        /\ StartShortfall > 0 =>
              /\ SeqSum(PlannedQuantities) <= StartShortfall
              /\ shortfall >= 0
        /\ StartShortfall <= 0 =>
              /\ hypothetical_inventory = << >>
              /\ hypothetical_changes = blank_totals
              /\ hypothetical_totals = blank_totals
              /\ \A d \in DOMAIN hypothetical_rolling_totals :
                    /\ AllZero(hypothetical_rolling_totals[d])
                    /\ AllZero(hypothetical_rolling_changes[d])

\* plan_future has returned after admitting, on more than one day, batches
\* whose last one was cut to what was left of the shortfall
C32_Witness ==
    /\ pc = "done"
    /\ StartShortfall > 0 /\ shortfall = 0
    /\ \E i, j \in DOMAIN hypothetical_inventory :
          /\ i < j
          /\ hypothetical_rolling_changes[1].overall["BS"] > 0
          /\ \E d \in 2..Days : hypothetical_rolling_changes[d].overall["BS"] > 0
          /\ hypothetical_inventory[j].quantity < MaxBatchQuantity
          /\ hypothetical_inventory[j].quantity < rolling_capacity[1].broodstock

\* a run of plan_future that started without shortfall has returned
C32_NothingToAdmit ==
    pc = "done" /\ StartShortfall <= 0 /\ Len(hypothetical_rolling_totals) = Days

\* C33: when plan_future is given the capacity series of a forecast whose
\* day-0 broodstock residual is >= 0, the broodstock value of every recovery
\* capacity record is >= 0 and on every day the forecast's BS total plus the
\* planned BS total at the end of the day is <= the broodstock pool.
C33_BroodstockPoolKept ==
    (PlanStarted /\ rolling_capacity[1].broodstock >= 0) =>
        /\ \A d \in DOMAIN hypothetical_rolling_capacity :
              hypothetical_rolling_capacity[d].broodstock >= 0
        /\ \A d \in DOMAIN hypothetical_rolling_totals :
              rolling_totals[d].overall["BS"]
                + hypothetical_rolling_totals[d].overall["BS"] <= farm.bs_capacity

\* plan_future has returned; on a day with forecast broodstock it admitted
\* until the broodstock pool was used up, with shortfall and BS-stage pool
\* left over, and it admitted again on a later day
C33_Witness ==
    /\ pc = "done"
    /\ rolling_capacity[1].broodstock >= 0
    /\ \E d \in 1..Days :
          /\ rolling_totals[d].overall["BS"] > 0
          /\ hypothetical_rolling_changes[d].overall["BS"] > 0
          /\ hypothetical_rolling_capacity[d].broodstock = 0
          /\ hypothetical_rolling_capacity[d].stage["BS"] > 0
          /\ rolling_totals[d].overall["BS"]
               + hypothetical_rolling_totals[d].overall["BS"] = farm.bs_capacity
          /\ \E d2 \in (d + 1)..Days : hypothetical_rolling_changes[d2].overall["BS"] > 0

\* the species choose_species may return in the current state
Choosable ==
    choose_species(SpeciesOrder, species_shortfall, farm.production_order,
                   farm.complete_species_set)

\* C34: when every production target is > 0 and every key of
\* species_shortfall is in production_order, the random fallback of
\* choose_species is never taken inside plan_future: the aggregate remaining
\* shortfall equals the sum of the per-species remaining shortfalls, so some
\* species has a positive share whenever the loop runs, and the species and
\* the quantity of every admitted batch are determined by the inputs.
C34_NoFallbackInPlan ==
    (PlanStarted /\ ~ ZeroTarget /\ DOMAIN species_shortfall \subseteq DOMAIN farm.production_order) =>
        /\ pc # "error"
        /\ shortfall = SumOver(species_shortfall, SpeciesOrder)
        /\ ( /\ pc = "p_admit"
             /\ AdmissionOpen(shortfall, rolling_capacity[day + 1].stage,
                              bs_capacity_remaining) ) =>
              /\ \E s \in Range(SpeciesOrder) : SharePositive(s)
              /\ choose_loop(SpeciesOrder, species_shortfall, farm.production_order,
                             0 - 1, 1, None) # None
              /\ \E i \in DOMAIN SpeciesOrder :
                    Choosable = { SpeciesOrder[i] } /\ FirstGreatest(i)

\* with positive targets the admission loop is about to run again after it
\* admitted batches of two species, one of them with nothing left to close
C34_Witness ==
    /\ pc = "p_admit" /\ ~ ZeroTarget
    /\ AdmissionOpen(shortfall, rolling_capacity[day + 1].stage, bs_capacity_remaining)
    /\ \E i, j \in DOMAIN hypothetical_inventory :
          /\ hypothetical_inventory[i].species # hypothetical_inventory[j].species
          /\ species_shortfall[hypothetical_inventory[i].species] = 0

\* plan_future has returned
PlanReturned == pc \in {"done", "unified"}

\* the residual forecast itself computed for a stage on the day of record d
ForecastStageResidual(d, s) ==
    farm.stage_capacities[s] - rolling_changes[d].overall[s]

\* C35: plan_future modifies the forecast capacity series it is given in
\* place: after it returns, the per-stage residual of forecasted_capacity for
\* each day is the value of the recovery capacity record of that day (the
\* forecast's residual less the recovery run's admissions and transitions of
\* the day), while the production and broodstock values of
\* forecasted_capacity are unchanged; the Farm's configured stage ceilings
\* are never modified by forecast or plan_future.
C35_CapacityModifiedInPlace ==
    /\ [] ( PlanReturned =>
              \A d \in 1..Days :
                 /\ rolling_capacity[d].stage = hypothetical_rolling_capacity[d].stage
                 /\ \A s \in Stages :
                       rolling_capacity[d].stage[s]
                         = ForecastStageResidual(d, s)
                             - hypothetical_rolling_changes[d].overall[s]
                 /\ rolling_capacity[d].prod
                      = avail_prod_capacity(farm.prod_capacity, rolling_totals[d].overall)
                 /\ rolling_capacity[d].broodstock
                      = avail_bs_capacity(farm.bs_capacity, rolling_totals[d].overall) )
    /\ [][ farm'.stage_capacities = farm.stage_capacities ]_vars

\* plan_future has returned; on one day a stage took in stock of the forecast
\* run and of the recovery run, and the forecast's record of that day now
\* holds less than forecast left in it; batches were admitted as well
C35_Witness ==
    /\ pc = "done"
    /\ \E d \in 1..Days : \E s \in Stages :
          /\ rolling_changes[d].overall[s] > 0
          /\ hypothetical_rolling_changes[d].overall[s] > 0
          /\ rolling_capacity[d].stage[s] < ForecastStageResidual(d, s)
    /\ \E d \in 1..Days :
          /\ hypothetical_rolling_changes[d].overall["BS"] > 0
          /\ rolling_capacity[d].stage["BS"] < ForecastStageResidual(d, "BS")

\* the stages a batch in the given stage has still to enter
Downstream(stage) == { s \in Stages : StageNo(s) > StageNo(stage) }

\* the cycle lengths a batch has still to sit through after it has left the
\* stage it is in
CyclesAfter(batch) ==
    IF batch.stage = "BS" THEN batch.mf_cycle_days + batch.fs_cycle_days
    ELSE IF batch.stage = "MF" THEN batch.fs_cycle_days
    ELSE 0

\* the last day on which batch number i of the inventory can reach OP: the
\* day it is first ready (not before day 0), the cycles of the stages ahead,
\* and one day of delay per stage ahead for each batch listed before it (an
\* earlier batch enters a stage only once)
Deadline(i) ==
    LET batch == inventory0[i]
        ready == IF batch.end_date[1] > 0 THEN batch.end_date[1] ELSE 0
    IN ready + CyclesAfter(batch) + (i - 1) * Cardinality(Downstream(batch.stage))

\* batch number i is not in OP yet, fits the ceiling of every stage ahead of
\* it, has positive cycle lengths, and the horizon reaches its deadline
Eligible(i) ==
    /\ i \in DOMAIN inventory0
    /\ inventory0[i].stage # "OP"
    /\ \A s \in Downstream(inventory0[i].stage) :
          inventory0[i].quantity <= farm.stage_capacities[s]
    /\ inventory0[i].bs_cycle_days > 0 /\ inventory0[i].mf_cycle_days > 0
    /\ inventory0[i].fs_cycle_days > 0
    /\ Deadline(i) < Days

InOP(i) == i \in DOMAIN inventory /\ inventory[i].stage = "OP"

\* C36: in forecast with positive cycle lengths and a horizon that is long
\* enough, every batch whose quantity is <= the ceiling of every stage
\* downstream of its current stage eventually reaches OP: an earlier-listed
\* batch can delay it on a given day but cannot starve it for ever.
C36_EventuallyOutplanted ==
    \A i \in 1..MaxBatches : Eligible(i) ~> InOP(i)

\* a batch listed after another was refused on the day it was ready and went
\* to OP on a later day
C36_Witness ==
    \E i \in DOMAIN inventory :
        /\ i > 1 /\ Eligible(i) /\ InOP(i)
        /\ inventory0[i].stage = "FS"
        /\ inventory[i].start_date > inventory0[i].end_date[1]

\* the evaluation found a ready batch whose next stage had less capacity
\* left than the batch holds
RefusedForCapacity(e) ==
    /\ Ready(e) /\ e.stage # "OP"
    /\ e.caps[NextStage(e.stage)] < e.quantity

\* the evaluation found a ready batch that fits what was left of its next stage
ReadyAndFits(e) ==
    /\ Ready(e) /\ e.stage # "OP"
    /\ e.caps[NextStage(e.stage)] >= e.quantity

\* the stage pool as the evaluation after number j found it, or as it is now
\* when j is the last evaluation so far
PoolAfter(j) ==
    IF j + 1 \in DOMAIN evals THEN evals[j + 1].caps
    ELSE IF evals[j].pass = "forecast" THEN stage_capacity_remaining
    ELSE rolling_capacity[evals[j].day + 1].stage

\* the conditions plan_future adds to a transition: the production pool holds
\* a BS batch, and an FS batch is outside the no-outplant window
Unrestricted(e) ==
    e.pass = "plan" =>
        /\ e.stage = "BS" => e.prod[1] >= e.quantity
        /\ e.stage = "FS" => ~ e.in_window

\* C37 as stated: in both passes a ready batch that is refused because the
\* remaining capacity of its next stage is smaller than its quantity consumes
\* no capacity, and a later-listed ready batch whose quantity fits the
\* remaining capacity still transitions on that same day.
C37_NoHeadOfLineBlocking ==
    pc \in {"f_batch", "p_batch"} =>
        \A j \in DOMAIN evals :
            RefusedForCapacity(evals[j]) =>
                /\ ~ evals[j].moved
                /\ PoolAfter(j) = evals[j].caps
                /\ \A k \in DOMAIN evals :
                      (j < k /\ ReadyAndFits(evals[k])) => evals[k].moved

\* C37 amended: as stated, where in plan_future the later-listed batch also
\* has to pass the conditions of its stage: a BS batch moves only if its
\* quantity is within the day's production residual and an FS batch only
\* outside the no-outplant window.
C37_NoBlockingByRefusedBatch ==
    pc \in {"f_batch", "p_batch"} =>
        \A j \in DOMAIN evals :
            RefusedForCapacity(evals[j]) =>
                /\ ~ evals[j].moved
                /\ PoolAfter(j) = evals[j].caps
                /\ \A k \in DOMAIN evals :
                      (j < k /\ ReadyAndFits(evals[k]) /\ Unrestricted(evals[k]))
                         => evals[k].moved

\* a capacity refusal followed, on the same day, by the transition of a
\* later-listed batch into the same stage
PassedBy(pass) ==
    \E j, k \in DOMAIN evals :
        /\ j < k /\ evals[j].pass = pass /\ evals[k].pass = pass
        /\ RefusedForCapacity(evals[j])
        /\ evals[k].stage = evals[j].stage
        /\ ReadyAndFits(evals[k]) /\ evals[k].moved

\* in plan_future a refused batch has just been passed by a later-listed one,
\* after a forecast in which the first batch of the inventory was still in BS
\* on the day the second one, ready with it, went on to MF
C37_Witness ==
    /\ pc = "p_batch" /\ PassedBy("plan")
    /\ Len(inventory0) = 2
    /\ inventory0[1].stage = "BS" /\ inventory0[2].stage = "BS"
    /\ inventory0[1].end_date = inventory0[2].end_date
    /\ inventory0[1].quantity > farm.stage_capacities["MF"]
    /\ LET d == inventory0[2].end_date[1] + 1
       IN /\ rolling_inventory[d][1].stage = "BS"
          /\ rolling_inventory[d][2].stage = "MF"
          /\ rolling_changes[d].overall["MF"] = inventory0[2].quantity

\* the capacity series without its production and broodstock values
StageResiduals(capacity) == [d \in DOMAIN capacity |-> capacity[d].stage]

\* the production and broodstock values of two capacity series differ by the
\* same amounts on every day: the differences of the pools
ShiftedPools(first, second) ==
    \A d \in DOMAIN first :
        /\ first[d].prod - second[d].prod = first[1].prod - second[1].prod
        /\ first[d].broodstock - second[d].broodstock
             = first[1].broodstock - second[1].broodstock

\* C38: the totals, changes, inventory and per-stage residuals produced by
\* forecast do not depend on the no-outplant window or on the production and
\* broodstock pool sizes: two forecast runs that differ only in those
\* settings make the same transitions on the same days, only the production
\* and broodstock residual values differ.
C38_ForecastIgnoresPoolsAndWindow ==
    SecondReturned =>
        /\ first_result[1][1] = rolling_inventory
        /\ first_result[1][2] = rolling_totals
        /\ first_result[1][3] = rolling_changes
        /\ StageResiduals(first_result[1][4]) = StageResiduals(rolling_capacity)
        /\ ShiftedPools(first_result[1][4], rolling_capacity)

\* both runs have returned; the second Farm has a window and other pools than
\* the first, stock went to OP inside the window and into MF beyond the
\* production pool
C38_Witness ==
    /\ SecondReturned
    /\ farm.no_outplant_window_start # None
    /\ first_result[1][4][1].prod # rolling_capacity[1].prod
    /\ first_result[1][4][1].broodstock # rolling_capacity[1].broodstock
    /\ \E d \in 1..Days : Closed(d - 1) /\ rolling_changes[d].overall["OP"] > 0
    /\ \E d \in 1..Days :
          rolling_changes[d].overall["MF"] > 0 /\ rolling_capacity[d].prod < 0

====
